---- MODULE Spec2Model ----
(***************************************************************************)
(* A model of the bounded per-host context store of Hackerecon:            *)
(*   internal/limits/limits.go        ContextLimits / ContextLimiter       *)
(*   internal/models/site_context.go  SiteContext and its mutators         *)
(*   internal/driven/context_manager.go  SiteContextManager (the registry) *)
(*                                                                         *)
(* Time is unix seconds on an abstract scale: the clock starts at          *)
(* StartTime > MaxAge (time.Now().Unix() is far from the epoch, so a       *)
(* timestamp of 0 is stale from the start) and moves forward by Tick.      *)
(* A method of a context holds the context's mutex for its whole body and  *)
(* a method of the registry holds the registry's mutex, so each call is    *)
(* one atomic step; the clock is read as one value per call.               *)
(***************************************************************************)
EXTENDS Integers, Sequences, FiniteSets, TLC

VARIABLES
  now,          \* time.Now().Unix()
  limits,       \* ContextLimiter.limits: the active policy
  heap,         \* the allocated SiteContext objects, by instance id (1..Len)
  contexts,     \* SiteContextManager.contexts: host -> instance id
  maxContexts,  \* SiteContextManager.maxContexts
  lastOp,       \* history: the last call, its arguments and what it returned
  nonStale,     \* history: per instance, AddRecentRequest calls that were not stale on arrival
  budget,       \* calls left in this behaviour; Unbounded: any number
  arrived,      \* history: per instance, the requests AddRecentRequest took, in arrival order
  mgr,          \* SiteContextManager.cleanupTicker, stopChan and the cleanup goroutine
  locks,        \* SiteContext.mutex of the first context: its holder and the call in progress
  mutexes,      \* the RWMutex of the registry (0) and of each context (its instance id)
  threads       \* per goroutine, the method it is in and the lock operations it has left

vars == <<now, limits, heap, contexts, maxContexts, lastOp, nonStale, budget,
          arrived, mgr, locks, mutexes, threads>>

----------------------------------------------------------------------------
(* Bounds of the model *)

MaxAge == 1              \* the policy's MaxAgeHours, in clock units
MaxTicks == 2            \* how far the clock advances
CapRequests == 2         \* the policy's MaxRecentRequests
CapForms == 2            \* the policy's MaxForms
CapResources == 2        \* the policy's MaxResources
CapPatterns == 2         \* the policy's MaxURLPatterns
CapNotes == 2            \* the policy's MaxNotesPerURL
MaxRequestCount == 3     \* calls of AddRecentRequest that count, per context
MaxInstances == 3        \* contexts ever created by the registry
MaxMaxContexts == 2      \* the registry's MaxContexts option ranges over 1..MaxMaxContexts
MaxCalls == 3            \* calls per behaviour, where a specification bounds them

RegistryCalls == MaxCalls + 3
StartTime == MaxAge + 1
MaxTime == StartTime + MaxTicks
Times == 0 .. MaxTime

Hosts == {"", "a", "b"}
ReqIds == {"r1", "r2"}
FormIds == {"f1", "f2", "f3"}
ResourceKeys == {"/api/u", "/api/p", "/api/o"}
Methods == {"GET"}
URLs == {"/a", "/b", "/c"}
NoteContents == {"", "n"}

Nil == "nil"
Unbounded == 0 - 1
EmptyMap == [k \in {} |-> Nil]

Range(f) == {f[k] : k \in DOMAIN f}
MapPut(m, k, v) == [x \in DOMAIN m \cup {k} |-> IF x = k THEN v ELSE m[x]]
MapDelete(m, k) == [x \in DOMAIN m \ {k} |-> m[x]]
MapRestrict(m, ks) == [x \in DOMAIN m \cap ks |-> m[x]]

----------------------------------------------------------------------------
(* internal/limits/limits.go *)

DefaultContextLimits ==
  [MaxRecentRequests |-> CapRequests,
   MaxForms          |-> CapForms,
   MaxResources      |-> CapResources,
   MaxAgeHours       |-> MaxAge,
   MaxURLPatterns    |-> CapPatterns,
   MaxNotesPerURL    |-> CapNotes]

\* GetLimits returns the active policy.
GetLimits(lim) == lim

\* Mutant: the policy is stored before it is examined.
UpdateLimits_StoresFirst(cur, new) ==
  [limits |-> new,
   ret    |-> IF new.MaxRecentRequests <= 0 THEN "MaxRecentRequests must be positive"
              ELSE IF new.MaxForms <= 0 THEN "MaxForms must be positive"
              ELSE IF new.MaxResources <= 0 THEN "MaxResources must be positive"
              ELSE IF new.MaxAgeHours <= 0 THEN "MaxAgeHours must be positive"
              ELSE IF new.MaxURLPatterns <= 0 THEN "MaxURLPatterns must be positive"
              ELSE IF new.MaxNotesPerURL <= 0 THEN "MaxNotesPerURL must be positive"
              ELSE "ok"]

\* The outcome [limits, ret] of ContextLimiter.UpdateLimits(new) under the policy cur;
\* ret is the error's text, or "ok" for nil.
UpdateLimits(cur, new) ==
  IF new.MaxRecentRequests <= 0
  THEN [limits |-> cur, ret |-> "MaxRecentRequests must be positive"]
  ELSE IF new.MaxForms <= 0
  THEN [limits |-> cur, ret |-> "MaxForms must be positive"]
  ELSE IF new.MaxResources <= 0
  THEN [limits |-> cur, ret |-> "MaxResources must be positive"]
  ELSE IF new.MaxAgeHours <= 0
  THEN [limits |-> cur, ret |-> "MaxAgeHours must be positive"]
  ELSE IF new.MaxURLPatterns <= 0
  THEN [limits |-> cur, ret |-> "MaxURLPatterns must be positive"]
  ELSE IF new.MaxNotesPerURL <= 0
  THEN [limits |-> cur, ret |-> "MaxNotesPerURL must be positive"]
  ELSE [limits |-> new, ret |-> "ok"]

\* The sanity ceilings of ValidateLimits.
CeilingRecentRequests == 1000
CeilingForms == 500
CeilingResources == 500
CeilingURLPatterns == 1000
CeilingNotesPerURL == 1000

\* ValidateLimits examines the active policy: the error's text, or "ok" for nil.
ValidateLimits(lim) ==
  IF lim.MaxRecentRequests > CeilingRecentRequests THEN "MaxRecentRequests too large (> 1000)"
  ELSE IF lim.MaxForms > CeilingForms THEN "MaxForms too large (> 500)"
  ELSE IF lim.MaxResources > CeilingResources THEN "MaxResources too large (> 500)"
  ELSE IF lim.MaxURLPatterns > CeilingURLPatterns THEN "MaxURLPatterns too large (> 1000)"
  ELSE IF lim.MaxNotesPerURL > CeilingNotesPerURL THEN "MaxNotesPerURL too large (> 1000)"
  ELSE "ok"

\* Mutant: the cutoff is a second too early, so a request one second past MaxAge passes.
ShouldCleanup_OffByOne(lim, t, timestamp) == timestamp < t - lim.MaxAgeHours - 1

\* cutoff := time.Now().Add(-cl.limits.MaxAgeHours).Unix(); return timestamp < cutoff
ShouldCleanup(lim, t, timestamp) == timestamp < t - lim.MaxAgeHours

----------------------------------------------------------------------------
(* internal/models/site_context.go *)

\* The limiter a pointer names: nil, the one the registry was given in opts.Limits, or
\* one allocated by limits.NewContextLimiter(nil) for a single context (two contexts
\* that hold OwnLimiter hold two instances).
NilLimiter == "nil"
OptsLimiter == "opts.Limits"
OwnLimiter == "own"

NewSiteContext(host, t) ==
  [host           |-> host,
   urlPatterns    |-> EmptyMap,
   recentRequests |-> << >>,
   forms          |-> EmptyMap,
   resourceCRUD   |-> EmptyMap,
   requestCount   |-> 0,
   lastActivity   |-> 0,
   techStack      |-> Nil,
   limiter        |-> OwnLimiter,
   lastCleanup    |-> t]

NewSiteContextWithLimiter(host, limiter, t) ==
  [NewSiteContext(host, t) EXCEPT
     !.limiter = IF limiter = NilLimiter THEN OwnLimiter ELSE limiter]

TimedRequest(id, ts) == [id |-> id, timestamp |-> ts]

\* s[len(s)-n:]
LastN(s, n) == SubSeq(s, Len(s) - n + 1, Len(s))

\* Mutant: the slice is never cut back to MaxRecentRequests.
AddRecentRequest_NoTruncate(sc, lim, t, request) ==
  IF ShouldCleanup(lim, t, request.timestamp)
  THEN sc
  ELSE [sc EXCEPT !.recentRequests = Append(@, request),
                  !.requestCount = @ + 1,
                  !.lastActivity = t]

\* Mutant: on overflow the slice keeps its first MaxRecentRequests elements.
AddRecentRequest_DropsNewest(sc, lim, t, request) ==
  IF ShouldCleanup(lim, t, request.timestamp)
  THEN sc
  ELSE LET appended == Append(sc.recentRequests, request)
           kept == IF Len(appended) > lim.MaxRecentRequests
                   THEN SubSeq(appended, 1, lim.MaxRecentRequests)
                   ELSE appended
       IN [sc EXCEPT !.recentRequests = kept,
                     !.requestCount = @ + 1,
                     !.lastActivity = t]

AddRecentRequest(sc, lim, t, request) ==
  IF ShouldCleanup(lim, t, request.timestamp)
  THEN sc
  ELSE LET appended == Append(sc.recentRequests, request)
           kept == IF Len(appended) > lim.MaxRecentRequests
                   THEN LastN(appended, lim.MaxRecentRequests)
                   ELSE appended
       IN [sc EXCEPT !.recentRequests = kept,
                     !.requestCount = @ + 1,
                     !.lastActivity = t]

\* The forms a full map may lose before an insert: the scan keeps the key of the
\* smallest FirstSeen below time.Now() (any of them on a tie: map order), and
\* deletes it unless it is the zero value "" of oldestKey.
EvictOldestForm(forms, t) ==
  LET oldest == {k \in DOMAIN forms :
                   /\ forms[k].firstSeen < t
                   /\ \A j \in DOMAIN forms : forms[k].firstSeen <= forms[j].firstSeen}
  IN IF oldest = {} THEN {forms}
     ELSE {IF k # "" THEN MapDelete(forms, k) ELSE forms : k \in oldest}

AddForm(sc, lim, t, form) ==
  LET before == IF Cardinality(DOMAIN sc.forms) >= lim.MaxForms
                THEN EvictOldestForm(sc.forms, t)
                ELSE {sc.forms}
  IN {[sc EXCEPT !.forms = MapPut(f, form.formID, form),
                 !.lastActivity = t] : f \in before}

EvictOldestResource(resources, t) ==
  LET oldest == {k \in DOMAIN resources :
                   /\ resources[k].detectedAt < t
                   /\ \A j \in DOMAIN resources :
                        resources[k].detectedAt <= resources[j].detectedAt}
  IN IF oldest = {} THEN {resources}
     ELSE {IF k # "" THEN MapDelete(resources, k) ELSE resources : k \in oldest}

\* Mutant: LastActivity takes the mapping's DetectedAt instead of time.Now().
AddResourceMapping_BackDates(sc, lim, t, key, mapping) ==
  {[sc EXCEPT !.resourceCRUD = MapPut(@, key, mapping),
              !.lastActivity = mapping.detectedAt]}

AddResourceMapping(sc, lim, t, key, mapping) ==
  LET before == IF Cardinality(DOMAIN sc.resourceCRUD) >= lim.MaxResources
                THEN EvictOldestResource(sc.resourceCRUD, t)
                ELSE {sc.resourceCRUD}
  IN {[sc EXCEPT !.resourceCRUD = MapPut(r, key, mapping),
                 !.lastActivity = t] : r \in before}

\* A *URLNote and a *URLPattern argument; either may be nil.
NilNote == [nil |-> TRUE, content |-> ""]
URLNote(content) == [nil |-> FALSE, content |-> content]
NilPattern == [nil |-> TRUE, purpose |-> "", notes |-> << >>]
URLPattern(purpose, notes) == [nil |-> FALSE, purpose |-> purpose, notes |-> notes]

\* Mutant: the full map loses the first pattern the range meets, with notes or not.
DropUnannotated_Any(patterns) ==
  IF DOMAIN patterns = {} THEN {patterns} ELSE {MapDelete(patterns, k) : k \in DOMAIN patterns}

\* The patterns a full map may lose: the first pattern without notes the range
\* meets (any of them: map order), or none.
DropUnannotated(patterns) ==
  LET bare == {k \in DOMAIN patterns : Len(patterns[k].notes) = 0}
  IN IF bare = {} THEN {patterns} ELSE {MapDelete(patterns, k) : k \in bare}

\* if note != nil && note.Content != "" { pattern.Purpose = note.Content }
WithPurpose(pattern, note) ==
  IF ~note.nil /\ note.content # ""
  THEN [pattern EXCEPT !.purpose = note.content]
  ELSE pattern

\* The outcomes [sc, ret]: ret is "ok" (the call returned nil) or "panic" (*note
\* dereferenced a nil note; what the call had changed by then stays changed).
UpdateURLPattern(sc, lim, t, patternKey, urlPattern, note) ==
  LET before == IF Cardinality(DOMAIN sc.urlPatterns) >= lim.MaxURLPatterns
                THEN DropUnannotated(sc.urlPatterns)
                ELSE {sc.urlPatterns}
      Existing(ps) ==
        LET old == ps[patternKey]
            cut == IF Len(old.notes) >= lim.MaxNotesPerURL
                   THEN [old EXCEPT !.notes = Tail(@)]
                   ELSE old
        IN IF note.nil
           THEN [sc |-> [sc EXCEPT !.urlPatterns = MapPut(ps, patternKey, cut)],
                 ret |-> "panic"]
           ELSE [sc |-> [sc EXCEPT
                           !.urlPatterns =
                              MapPut(ps, patternKey,
                                     WithPurpose([cut EXCEPT !.notes = Append(@, note)], note)),
                           !.lastActivity = t],
                 ret |-> "ok"]
      Fresh(ps) ==
        IF urlPattern.nil /\ note.nil
        THEN [sc |-> [sc EXCEPT !.urlPatterns = ps], ret |-> "panic"]
        ELSE LET pattern == IF urlPattern.nil
                            THEN URLPattern("", <<note>>)
                            ELSE urlPattern
             IN [sc |-> [sc EXCEPT
                           !.urlPatterns = MapPut(ps, patternKey, WithPurpose(pattern, note)),
                           !.lastActivity = t],
                 ret |-> "ok"]
  IN {IF patternKey \in DOMAIN ps THEN Existing(ps) ELSE Fresh(ps) : ps \in before}

\* The maps the backstop may leave of a map above its cap: the first max keys the
\* range meets stay (any max of them: map order).
TrimMap(m, max) ==
  IF Cardinality(DOMAIN m) > max
  THEN {MapRestrict(m, ks) : ks \in {s \in SUBSET DOMAIN m : Cardinality(s) = max}}
  ELSE {m}

\* Mutant: the cleanup recounts RequestCount from what is left.
CleanupOldData_ResetsCount(sc, lim, t) ==
  LET Valid(req) == ~ShouldCleanup(lim, t, req.timestamp)
      requests == SelectSeq(sc.recentRequests, Valid)
  IN {[sc EXCEPT !.recentRequests = requests,
                 !.requestCount = Len(requests),
                 !.lastCleanup = t]}

\* Mutant: the pass over the forms is missing.
CleanupOldData_KeepsStaleForms(sc, lim, t) ==
  LET Valid(req) == ~ShouldCleanup(lim, t, req.timestamp)
      requests == SelectSeq(sc.recentRequests, Valid)
      resources == MapRestrict(sc.resourceCRUD,
                     {k \in DOMAIN sc.resourceCRUD :
                        ~ShouldCleanup(lim, t, sc.resourceCRUD[k].detectedAt)})
  IN {[sc EXCEPT !.recentRequests = requests,
                 !.resourceCRUD = resources,
                 !.lastCleanup = t]}

\* Mutant: the cleanup counts as activity.
CleanupOldData_Touches(sc, lim, t) ==
  LET Valid(req) == ~ShouldCleanup(lim, t, req.timestamp)
  IN {[sc EXCEPT !.recentRequests = SelectSeq(sc.recentRequests, Valid),
                 !.lastActivity = t,
                 !.lastCleanup = t]}

\* Mutant: the cleanup drops what is stale and does not apply the caps afterwards.
CleanupOldData_NoBackstop(sc, lim, t) ==
  LET Valid(req) == ~ShouldCleanup(lim, t, req.timestamp)
  IN {[sc EXCEPT !.recentRequests = SelectSeq(sc.recentRequests, Valid),
                 !.forms = MapRestrict(sc.forms,
                             {k \in DOMAIN sc.forms :
                                ~ShouldCleanup(lim, t, sc.forms[k].firstSeen)}),
                 !.resourceCRUD = MapRestrict(sc.resourceCRUD,
                                    {k \in DOMAIN sc.resourceCRUD :
                                       ~ShouldCleanup(lim, t, sc.resourceCRUD[k].detectedAt)}),
                 !.lastCleanup = t]}

CleanupOldData(sc, lim, t) ==
  LET Valid(req) == ~ShouldCleanup(lim, t, req.timestamp)
      validRequests == SelectSeq(sc.recentRequests, Valid)
      requests == IF Len(validRequests) > lim.MaxRecentRequests
                  THEN LastN(validRequests, lim.MaxRecentRequests)
                  ELSE validRequests
      forms == MapRestrict(sc.forms,
                 {k \in DOMAIN sc.forms : ~ShouldCleanup(lim, t, sc.forms[k].firstSeen)})
      resources == MapRestrict(sc.resourceCRUD,
                     {k \in DOMAIN sc.resourceCRUD :
                        ~ShouldCleanup(lim, t, sc.resourceCRUD[k].detectedAt)})
  IN {[sc EXCEPT !.recentRequests = requests,
                 !.forms = f,
                 !.resourceCRUD = r,
                 !.lastCleanup = t] :
        f \in TrimMap(forms, lim.MaxForms), r \in TrimMap(resources, lim.MaxResources)}

----------------------------------------------------------------------------
(* internal/driven/context_manager.go *)

\* The lifecycle part of the registry after construction: scheduled is
\* opts.CleanupInterval > 0, and then the ticker is set and the goroutine of
\* startCleanupRoutine runs; limiter is opts.Limits.
NewSiteContextManagerWithOptions(scheduled, limiter, t) ==
  [cleanupTicker     |-> scheduled,
   limiter           |-> limiter,
   stopChan          |-> "open",
   loop              |-> IF scheduled THEN "running" ELSE "none",
   tickPending       |-> FALSE,
   lastGlobalCleanup |-> t]

\* The registry maps evictOldestContext may leave: the scan keeps the host of the
\* smallest last_activity below time.Now() (any of them on a tie: map order), and
\* deletes it unless it is the zero value "" of oldestHost.
evictOldestContext(cs, hp, t) ==
  LET oldest == {h \in DOMAIN cs :
                   /\ hp[cs[h]].lastActivity < t
                   /\ \A g \in DOMAIN cs : hp[cs[h]].lastActivity <= hp[cs[g]].lastActivity}
  IN IF oldest = {} THEN {cs}
     ELSE {IF h # "" THEN MapDelete(cs, h) ELSE cs : h \in oldest}

\* Mutant: the lookup of an existing context is missing.
GetOrCreate_AlwaysCreates(cs, hp, max, limiter, t, host) ==
  {[contexts |-> MapPut(cs, host, Len(hp) + 1),
    heap     |-> Append(hp, NewSiteContextWithLimiter(host, limiter, t)),
    ret      |-> Len(hp) + 1]}

\* Mutant: an absent host gets back the context it had before its eviction.
GetOrCreate_Revives(cs, hp, max, limiter, t, host) ==
  LET former == {i \in 1 .. Len(hp) : hp[i].host = host}
  IN IF host \in DOMAIN cs
     THEN {[contexts |-> cs, heap |-> hp, ret |-> cs[host]]}
     ELSE IF former # {}
          THEN {[contexts |-> MapPut(cs, host, i), heap |-> hp, ret |-> i] : i \in former}
          ELSE {[contexts |-> MapPut(cs, host, Len(hp) + 1),
                 heap     |-> Append(hp, NewSiteContextWithLimiter(host, limiter, t)),
                 ret      |-> Len(hp) + 1]}

\* Mutant: the new context gets a limiter of its own.
GetOrCreate_OwnLimiter(cs, hp, max, limiter, t, host) ==
  IF host \in DOMAIN cs
  THEN {[contexts |-> cs, heap |-> hp, ret |-> cs[host]]}
  ELSE LET before == IF Cardinality(DOMAIN cs) >= max
                     THEN evictOldestContext(cs, hp, t)
                     ELSE {cs}
       IN {[contexts |-> MapPut(c, host, Len(hp) + 1),
            heap     |-> Append(hp, NewSiteContext(host, t)),
            ret      |-> Len(hp) + 1] : c \in before}

\* The outcomes [contexts, heap, ret] of GetOrCreate(host); ret is the instance returned.
GetOrCreate(cs, hp, max, limiter, t, host) ==
  IF host \in DOMAIN cs
  THEN {[contexts |-> cs, heap |-> hp, ret |-> cs[host]]}
  ELSE LET before == IF Cardinality(DOMAIN cs) >= max
                     THEN evictOldestContext(cs, hp, t)
                     ELSE {cs}
       IN {[contexts |-> MapPut(c, host, Len(hp) + 1),
            heap     |-> Append(hp, NewSiteContextWithLimiter(host, limiter, t)),
            ret      |-> Len(hp) + 1] : c \in before}

\* Get(host): the instance the map holds, or 0 for nil.
Get(cs, host) == IF host \in DOMAIN cs THEN cs[host] ELSE 0

\* GetAllHosts(): the keys of the map (in map order: as a set).
GetAllHosts(cs) == DOMAIN cs

\* Mutant: the victim is cleaned and stays in the map.
RemoveContext_KeepsEntry(cs, hp, lim, t, host) ==
  IF host \in DOMAIN cs
  THEN {[contexts |-> cs, heap |-> [hp EXCEPT ![cs[host]] = sc]] :
           sc \in CleanupOldData(hp[cs[host]], lim, t)}
  ELSE {[contexts |-> cs, heap |-> hp]}

\* The outcomes [contexts, heap] of RemoveContext(host).
RemoveContext(cs, hp, lim, t, host) ==
  IF host \in DOMAIN cs
  THEN {[contexts |-> MapDelete(cs, host),
         heap     |-> [hp EXCEPT ![cs[host]] = sc]] :
           sc \in CleanupOldData(hp[cs[host]], lim, t)}
  ELSE {[contexts |-> cs, heap |-> hp]}

\* The heaps a pass of CleanupOldData over the registry's contexts may leave: the
\* instances 1 .. n that the map cs holds are cleaned, the others are left alone.
RECURSIVE CleanupEach(_, _, _, _, _)
CleanupEach(cs, hp, lim, t, n) ==
  IF n = 0 THEN {<< >>}
  ELSE {Append(cleaned, sc) :
          cleaned \in CleanupEach(cs, hp, lim, t, n - 1),
          sc \in IF n \in Range(cs) THEN CleanupOldData(hp[n], lim, t) ELSE {hp[n]}}

\* Mutant: the sweep cleans the contexts and deletes none.
PerformGlobalCleanup_CleansOnly(cs, hp, lim, max, t) ==
  {[contexts |-> cs, heap |-> cleaned] : cleaned \in CleanupEach(cs, hp, lim, t, Len(hp))}

\* Mutant: the sweep cleans every context and deletes none for its age.
PerformGlobalCleanup_EvictsOnly(cs, hp, lim, max, t) ==
  UNION {LET after == IF Cardinality(DOMAIN cs) > max
                      THEN evictOldestContext(cs, cleaned, t)
                      ELSE {cs}
         IN {[contexts |-> c, heap |-> cleaned] : c \in after} :
           cleaned \in CleanupEach(cs, hp, lim, t, Len(hp))}

\* The outcomes [contexts, heap] of PerformGlobalCleanup: every context is cleaned and
\* deleted if its last_activity is stale; then, above maxContexts, one more goes.
PerformGlobalCleanup(cs, hp, lim, max, t) ==
  UNION {LET kept == MapRestrict(cs, {h \in DOMAIN cs :
                                        ~ShouldCleanup(lim, t, cleaned[cs[h]].lastActivity)})
             after == IF Cardinality(DOMAIN kept) > max
                      THEN evictOldestContext(kept, cleaned, t)
                      ELSE {kept}
         IN {[contexts |-> c, heap |-> cleaned] : c \in after} :
           cleaned \in CleanupEach(cs, hp, lim, t, Len(hp))}

\* Mutant: Stop closes the channel without looking at cleanupTicker.
Stop_ClosesAlways(mg, cs, hp, lim, t) ==
  IF mg.stopChan = "closed"
  THEN {[mgr |-> mg, heap |-> hp, ret |-> "panic"]}
  ELSE {[mgr |-> [mg EXCEPT !.stopChan = "closed", !.cleanupTicker = FALSE],
         heap |-> cleaned, ret |-> "ok"] : cleaned \in CleanupEach(cs, hp, lim, t, Len(hp))}

\* Mutant: Stop stops the ticker and leaves the channel open.
Stop_NoClose(mg, cs, hp, lim, t) ==
  {[mgr |-> [mg EXCEPT !.cleanupTicker = FALSE], heap |-> cleaned, ret |-> "ok"] :
     cleaned \in CleanupEach(cs, hp, lim, t, Len(hp))}

\* The outcomes [mgr, heap, ret] of Stop: with a ticker set it closes stopChan (close of
\* a closed channel panics, before anything else is done), stops the ticker and clears
\* the field; then it cleans every context under the registry's lock.
Stop(mg, cs, hp, lim, t) ==
  IF mg.cleanupTicker /\ mg.stopChan = "closed"
  THEN {[mgr |-> mg, heap |-> hp, ret |-> "panic"]}
  ELSE LET after == IF mg.cleanupTicker
                    THEN [mg EXCEPT !.stopChan = "closed", !.cleanupTicker = FALSE]
                    ELSE mg
       IN {[mgr |-> after, heap |-> cleaned, ret |-> "ok"] :
             cleaned \in CleanupEach(cs, hp, lim, t, Len(hp))}

\* fmt.Sprintf("%s:%s", method, url)
PatternKey(method, url) == method \o ":" \o url

\* Mutant: the test of urlNote is missing.
ManagerUpdateURLPattern_NoNoteTest(hasContext, sc, lim, t, url, method, urlNote) ==
  IF ~hasContext
  THEN {[sc |-> sc, ret |-> "siteContext cannot be nil"]}
  ELSE UpdateURLPattern(sc, lim, t, PatternKey(method, url), NilPattern, urlNote)

\* The outcomes [sc, ret] of the registry's UpdateURLPattern on context sc; hasContext
\* is false for a nil siteContext, and then sc is left as given.
ManagerUpdateURLPattern(hasContext, sc, lim, t, url, method, urlNote) ==
  IF ~hasContext
  THEN {[sc |-> sc, ret |-> "siteContext cannot be nil"]}
  ELSE IF urlNote.nil
  THEN {[sc |-> sc, ret |-> "urlNote cannot be nil"]}
  ELSE UpdateURLPattern(sc, lim, t, PatternKey(method, url),
                        URLPattern(urlNote.content, <<urlNote>>), urlNote)

\* The outcome [limits, ret] of the registry's UpdateLimits: the limiter's error is
\* wrapped, fmt.Errorf("failed to update limits: %w", err).
ManagerUpdateLimits(cur, new) ==
  LET out == UpdateLimits(cur, new)
  IN IF out.ret # "ok"
     THEN [limits |-> out.limits, ret |-> "failed to update limits: " \o out.ret]
     ELSE out

----------------------------------------------------------------------------
(* The calls, as steps *)

Instances == 1 .. Len(heap)

NoLimits == [MaxRecentRequests |-> 0, MaxForms |-> 0, MaxResources |-> 0,
             MaxAgeHours |-> 0, MaxURLPatterns |-> 0, MaxNotesPerURL |-> 0]

Op(op, inst, host, key, ts, pat, note, ret) ==
  [op |-> op, inst |-> inst, host |-> host, key |-> key, ts |-> ts,
   pat |-> pat, note |-> note, ret |-> ret, lim |-> NoLimits, hosts |-> {}, gone |-> {}]

\* History of a call on the pattern map, or of a cleanup on the forms: the keys it
\* deleted.
OpGone(op, before, after) == [op EXCEPT !.gone = DOMAIN before \ DOMAIN after]

NoOp == Op("none", 0, "", "", 0, NilPattern, NilNote, "")

\* A call that takes or returns a policy.
OpLimits(op, lim, ret) ==
  [Op(op, 0, "", "", 0, NilPattern, NilNote, ret) EXCEPT !.lim = lim]

\* sc.mutex with nobody inside.
Unlocked == [holder |-> 0, call |-> NoOp]

HTMLForm(id, firstSeen) == [formID |-> id, firstSeen |-> firstSeen]
ResourceMapping(path, detectedAt) == [resourcePath |-> path, detectedAt |-> detectedAt]

\* sc.limiter.GetLimits(): the policy of the limiter the context holds. limits is the
\* policy of the registry's limiter; a limiter a context allocated for itself keeps
\* the default policy, since no exported call reaches it.
LimitsOf(sc) == IF sc.limiter = OwnLimiter THEN DefaultContextLimits ELSE limits

\* One more call, where the behaviour's calls are bounded.
Spend ==
  /\ budget # 0
  /\ budget' = IF budget > 0 THEN budget - 1 ELSE budget

Tick ==
  /\ now < MaxTime
  /\ now' = now + 1
  /\ UNCHANGED <<limits, heap, contexts, maxContexts, lastOp, nonStale, budget>>
  /\ UNCHANGED <<arrived, mgr, locks, mutexes, threads>>

CallAddRecentRequest(i, request) ==
  /\ Spend
  /\ heap[i].requestCount < MaxRequestCount
  /\ heap' = [heap EXCEPT ![i] = AddRecentRequest(heap[i], LimitsOf(heap[i]), now, request)]
  /\ nonStale' = [nonStale EXCEPT
                    ![i] = IF request.timestamp < now - LimitsOf(heap[i]).MaxAgeHours
                           THEN @ ELSE @ + 1]
  /\ lastOp' = Op("AddRecentRequest", i, heap[i].host, request.id, request.timestamp,
                  NilPattern, NilNote, "ok")
  /\ arrived' = [arrived EXCEPT
                   ![i] = IF ShouldCleanup(LimitsOf(heap[i]), now, request.timestamp)
                          THEN @ ELSE Append(@, request)]
  /\ UNCHANGED <<now, limits, contexts, maxContexts, mgr, locks, mutexes, threads>>

CallAddForm(i, form) ==
  /\ Spend
  /\ \E sc \in AddForm(heap[i], LimitsOf(heap[i]), now, form) :
       heap' = [heap EXCEPT ![i] = sc]
  /\ lastOp' = Op("AddForm", i, heap[i].host, form.formID, form.firstSeen,
                  NilPattern, NilNote, "ok")
  /\ UNCHANGED <<now, limits, contexts, maxContexts, nonStale, arrived, mgr, locks, mutexes, threads>>

CallAddResourceMapping(i, key, mapping) ==
  /\ Spend
  /\ \E sc \in AddResourceMapping(heap[i], LimitsOf(heap[i]), now, key, mapping) :
       heap' = [heap EXCEPT ![i] = sc]
  /\ lastOp' = Op("AddResourceMapping", i, heap[i].host, key, mapping.detectedAt,
                  NilPattern, NilNote, "ok")
  /\ UNCHANGED <<now, limits, contexts, maxContexts, nonStale, arrived, mgr, locks, mutexes, threads>>

CallUpdateURLPattern(i, patternKey, urlPattern, note) ==
  /\ Spend
  /\ \E out \in UpdateURLPattern(heap[i], LimitsOf(heap[i]), now, patternKey, urlPattern, note) :
       /\ heap' = [heap EXCEPT ![i] = out.sc]
       /\ lastOp' = OpGone(Op("UpdateURLPattern", i, heap[i].host, patternKey, 0,
                               urlPattern, note, out.ret),
                            heap[i].urlPatterns, out.sc.urlPatterns)
  /\ UNCHANGED <<now, limits, contexts, maxContexts, nonStale, arrived, mgr, locks, mutexes, threads>>

\* The registry's UpdateURLPattern on context i; i = 0 is a nil siteContext.
CallManagerUpdateURLPattern(i, url, method, urlNote) ==
  /\ Spend
  /\ LET hasContext == i # 0
         sc == IF hasContext THEN heap[i] ELSE NewSiteContext("", 0)
     IN \E out \in ManagerUpdateURLPattern(hasContext, sc, LimitsOf(sc), now, url, method, urlNote) :
          /\ heap' = IF hasContext THEN [heap EXCEPT ![i] = out.sc] ELSE heap
          /\ lastOp' = OpGone(Op("Manager.UpdateURLPattern", i, sc.host,
                                  PatternKey(method, url), 0,
                                  URLPattern(urlNote.content, <<urlNote>>), urlNote, out.ret),
                               sc.urlPatterns, out.sc.urlPatterns)
  /\ UNCHANGED <<now, limits, contexts, maxContexts, nonStale, arrived, mgr, locks, mutexes, threads>>

CallCleanupOldData(i) ==
  /\ Spend
  /\ \E sc \in CleanupOldData(heap[i], LimitsOf(heap[i]), now) :
       /\ heap' = [heap EXCEPT ![i] = sc]
       /\ lastOp' = OpGone(Op("CleanupOldData", i, heap[i].host, "", 0, NilPattern, NilNote, "ok"),
                            heap[i].forms, sc.forms)
  /\ UNCHANGED <<now, limits, contexts, maxContexts, nonStale, arrived, mgr, locks, mutexes, threads>>

CallGetOrCreate(host) ==
  /\ Spend
  /\ host \in DOMAIN contexts \/ Len(heap) < MaxInstances
  /\ \E out \in GetOrCreate(contexts, heap, maxContexts, mgr.limiter, now, host) :
       /\ contexts' = out.contexts
       /\ heap' = out.heap
       /\ nonStale' = IF Len(out.heap) > Len(heap) THEN Append(nonStale, 0) ELSE nonStale
       /\ arrived' = IF Len(out.heap) > Len(heap) THEN Append(arrived, << >>) ELSE arrived
       /\ lastOp' = [Op("GetOrCreate", out.ret, host, "", 0, NilPattern, NilNote, "ok")
                       EXCEPT !.hosts = DOMAIN contexts]
  /\ UNCHANGED <<now, limits, maxContexts, mgr, locks, mutexes, threads>>

CallRemoveContext(host) ==
  /\ Spend
  /\ \E out \in RemoveContext(contexts, heap, limits, now, host) :
       /\ contexts' = out.contexts
       /\ heap' = out.heap
  /\ lastOp' = Op("RemoveContext", 0, host, "", 0, NilPattern, NilNote, "ok")
  /\ UNCHANGED <<now, limits, maxContexts, nonStale, arrived, mgr, locks, mutexes, threads>>

\* A call that reports hosts, or whose history keeps the hosts it started from.
OpHosts(op, hosts, ret) ==
  [Op(op, 0, "", "", 0, NilPattern, NilNote, ret) EXCEPT !.hosts = hosts]

CallPerformGlobalCleanup ==
  /\ Spend
  /\ \E out \in PerformGlobalCleanup(contexts, heap, limits, maxContexts, now) :
       /\ contexts' = out.contexts
       /\ heap' = out.heap
  /\ mgr' = [mgr EXCEPT !.lastGlobalCleanup = now]
  /\ lastOp' = OpHosts("PerformGlobalCleanup", DOMAIN contexts, "ok")
  /\ UNCHANGED <<now, limits, maxContexts, nonStale, arrived, locks, mutexes, threads>>

CallStop ==
  /\ Spend
  /\ \E out \in Stop(mgr, contexts, heap, limits, now) :
       /\ mgr' = out.mgr
       /\ heap' = out.heap
       /\ lastOp' = OpHosts("Stop", DOMAIN contexts, out.ret)
  /\ UNCHANGED <<now, limits, contexts, maxContexts, nonStale, arrived, locks, mutexes, threads>>

\* The running ticker sends on ticker.C, a channel of one slot: a tick that finds the
\* slot taken is dropped.
TickerFire ==
  /\ mgr.cleanupTicker
  /\ ~mgr.tickPending
  /\ mgr' = [mgr EXCEPT !.tickPending = TRUE]
  /\ UNCHANGED <<now, limits, heap, contexts, maxContexts, lastOp, nonStale, budget,
                 arrived, locks, mutexes, threads>>

\* The goroutine of startCleanupRoutine takes case <-ticker.C.
SchedulerTick ==
  /\ mgr.loop = "running"
  /\ mgr.tickPending
  /\ \E out \in PerformGlobalCleanup(contexts, heap, limits, maxContexts, now) :
       /\ contexts' = out.contexts
       /\ heap' = out.heap
  /\ mgr' = [mgr EXCEPT !.tickPending = FALSE, !.lastGlobalCleanup = now]
  /\ lastOp' = OpHosts("PerformGlobalCleanup", DOMAIN contexts, "ok")
  /\ UNCHANGED <<now, limits, maxContexts, nonStale, budget, arrived, locks, mutexes, threads>>

\* The goroutine takes case <-m.stopChan and returns.
SchedulerExit ==
  /\ mgr.loop = "running"
  /\ mgr.stopChan = "closed"
  /\ mgr' = [mgr EXCEPT !.loop = "exited"]
  /\ UNCHANGED <<now, limits, heap, contexts, maxContexts, lastOp, nonStale, budget,
                 arrived, locks, mutexes, threads>>

CallGet(host) ==
  /\ Spend
  /\ lastOp' = Op("Get", Get(contexts, host), host, "", 0, NilPattern, NilNote, "ok")
  /\ UNCHANGED <<now, limits, heap, contexts, maxContexts, nonStale, arrived, mgr, locks, mutexes, threads>>

CallGetAllHosts ==
  /\ Spend
  /\ lastOp' = OpHosts("GetAllHosts", GetAllHosts(contexts), "ok")
  /\ UNCHANGED <<now, limits, heap, contexts, maxContexts, nonStale, arrived, mgr, locks, mutexes, threads>>

CallLimiterUpdateLimits(new) ==
  /\ Spend
  /\ LET out == UpdateLimits(limits, new)
     IN /\ limits' = out.limits
        /\ lastOp' = OpLimits("UpdateLimits", new, out.ret)
  /\ UNCHANGED <<now, heap, contexts, maxContexts, nonStale, arrived, mgr, locks, mutexes, threads>>

CallManagerUpdateLimits(new) ==
  /\ Spend
  /\ LET out == ManagerUpdateLimits(limits, new)
     IN /\ limits' = out.limits
        /\ lastOp' = OpLimits("Manager.UpdateLimits", new, out.ret)
  /\ UNCHANGED <<now, heap, contexts, maxContexts, nonStale, arrived, mgr, locks, mutexes, threads>>

CallGetLimits ==
  /\ Spend
  /\ lastOp' = OpLimits("GetLimits", GetLimits(limits), "ok")
  /\ UNCHANGED <<now, limits, heap, contexts, maxContexts, nonStale, arrived, mgr, locks, mutexes, threads>>

CallValidateLimits ==
  /\ Spend
  /\ lastOp' = OpLimits("ValidateLimits", NoLimits, ValidateLimits(limits))
  /\ UNCHANGED <<now, limits, heap, contexts, maxContexts, nonStale, arrived, mgr, locks, mutexes, threads>>

\* The body of the context method a worker is in, between sc.mutex.Lock() and the
\* deferred Unlock: the outcomes [sc, ret].
RunCall(sc, lim, t, call) ==
  CASE call.op = "AddRecentRequest" ->
         {[sc |-> AddRecentRequest(sc, lim, t, TimedRequest(call.key, call.ts)), ret |-> "ok"]}
    [] call.op = "AddForm" ->
         {[sc |-> out, ret |-> "ok"] : out \in AddForm(sc, lim, t, HTMLForm(call.key, call.ts))}
    [] call.op = "UpdateURLPattern" ->
         UpdateURLPattern(sc, lim, t, call.key, call.pat, call.note)

\* sc.mutex.Lock() of worker w entering a method of the first context: it gets the
\* mutex when nobody holds it, and waits otherwise.
WorkerLock(w, call) ==
  /\ Spend
  /\ locks.holder = 0
  /\ locks' = [holder |-> w, call |-> call]
  /\ UNCHANGED <<now, limits, heap, contexts, maxContexts, lastOp, nonStale, arrived, mgr,
                 mutexes, threads>>

\* The method's body and its deferred sc.mutex.Unlock().
WorkerRun(w) ==
  /\ locks.holder = w
  /\ \E out \in RunCall(heap[1], limits, now, locks.call) :
       /\ heap' = [heap EXCEPT ![1] = out.sc]
       /\ lastOp' = [locks.call EXCEPT !.ret = out.ret]
  /\ LET counts == /\ locks.call.op = "AddRecentRequest"
                    /\ ~ShouldCleanup(limits, now, locks.call.ts)
     IN /\ nonStale' = [nonStale EXCEPT ![1] = IF counts THEN @ + 1 ELSE @]
        /\ arrived' = [arrived EXCEPT
                         ![1] = IF counts
                                THEN Append(@, TimedRequest(locks.call.key, locks.call.ts))
                                ELSE @]
  /\ locks' = Unlocked
  /\ UNCHANGED <<now, limits, contexts, maxContexts, budget, mgr, mutexes, threads>>

----------------------------------------------------------------------------
(* internal/utils/temporal_tracker.go, internal/utils/crud_mapper.go *)

\* The constant models.MaxRecentRequests: the same number as the default policy's cap.
MaxRecentRequests == CapRequests

\* TrackRequest(siteContext, ...) at time t, with the id it generated: it holds the
\* tracker's own mutex and writes the context's fields directly.
TrackRequest(sc, t, id) ==
  LET kept == IF Len(sc.recentRequests) >= MaxRecentRequests
              THEN Tail(sc.recentRequests)
              ELSE sc.recentRequests
  IN [sc EXCEPT !.recentRequests = Append(kept, TimedRequest(id, t)),
                !.requestCount = @ + 1,
                !.lastActivity = t]

\* A URL path is the sequence of its segments; a segment that looksLikeID is a number
\* or a hexadecimal word, a first segment that is static is one of staticPatterns.
IdSegments == {"1", "deadbeef"}
StaticSegments == {"static", "assets", "css", "js", "img", "images", "public", "files"}

\* extractAPIResource, for the segments after /api/.
extractAPIResource(parts) ==
  IF parts[1] \in {"v1", "v2"}
  THEN IF Len(parts) >= 2 THEN "/api/" \o parts[1] \o "/" \o parts[2] ELSE ""
  ELSE IF parts[1] = "" THEN "" ELSE "/api/" \o parts[1]

\* extractResourcePath: the base resource of a path, or "" when there is none.
extractResourcePath(path) ==
  IF path = << >> THEN ""
  ELSE IF path[1] \in StaticSegments /\ Len(path) >= 2 THEN ""
  ELSE IF path[1] = "api" /\ Len(path) >= 2 THEN extractAPIResource(Tail(path))
  ELSE IF Len(path) >= 2
       THEN IF path[2] \notin IdSegments
            THEN "/" \o path[1] \o "/" \o path[2]
            ELSE "/" \o path[1]
       ELSE IF path[1] \notin StaticSegments THEN "/" \o path[1] ELSE ""

\* UpdateResourceMapping(siteContext, method, path) at time t: it holds the mapper's
\* own mutex, and stores a mapping for a resource the context does not have yet.
UpdateResourceMapping(sc, t, method, path) ==
  LET resource == extractResourcePath(path)
  IN IF resource = "" \/ resource \in DOMAIN sc.resourceCRUD
     THEN sc
     ELSE [sc EXCEPT !.resourceCRUD = MapPut(@, resource, ResourceMapping(resource, t))]

\* A goroutine calls a helper on the first context; the helper does not look at
\* sc.mutex, so the call runs whoever holds it.
HelperTrackRequest(id) ==
  /\ Spend
  /\ heap[1].requestCount < MaxRequestCount
  /\ heap' = [heap EXCEPT ![1] = TrackRequest(heap[1], now, id)]
  /\ lastOp' = Op("TrackRequest", 1, heap[1].host, id, now, NilPattern, NilNote, "ok")
  /\ UNCHANGED <<now, limits, contexts, maxContexts, nonStale, arrived, mgr, locks, mutexes, threads>>

HelperUpdateResourceMapping(method, path) ==
  /\ Spend
  /\ heap' = [heap EXCEPT ![1] = UpdateResourceMapping(heap[1], now, method, path)]
  /\ lastOp' = Op("UpdateResourceMapping", 1, heap[1].host, extractResourcePath(path), now,
                  NilPattern, NilNote, "ok")
  /\ UNCHANGED <<now, limits, contexts, maxContexts, nonStale, arrived, mgr, locks, mutexes, threads>>

----------------------------------------------------------------------------
(* The locks: m.mutex of the registry and sc.mutex of each context *)

\* A sync.RWMutex: the goroutine holding it for writing (0: none), those holding it for
\* reading, and those that have called Lock and wait for it.
Free == [writer |-> 0, readers |-> {}, waiting |-> {}]

\* The registry's mutex is number 0, the mutex of context i is number i.
RegistryMutex == 0

\* A lock operation a method has left to do, and a range loop over contexts whose body
\* is a list of lock operations on the context visited.
I(ins, m) == [ins |-> ins, m |-> m, todo |-> {}, body |-> << >>]
RangeOver(todo, body) == [ins |-> "range", m |-> 0, todo |-> todo, body |-> body]
Body(i, body) == [k \in 1 .. Len(body) |-> I(body[k], i)]

\* Mutant: a context method that calls back into the registry (Get) under sc.mutex.
MutatorProgram_CallsBack(i) ==
  <<I("Lock", i), I("RLock", RegistryMutex), I("RUnlock", RegistryMutex), I("Unlock", i)>>

\* AddRecentRequest, AddForm, AddResourceMapping, UpdateURLPattern, CleanupOldData:
\* sc.mutex.Lock(), the body, the deferred Unlock; no call leaves the context.
MutatorProgram(i) == <<I("Lock", i), I("Unlock", i)>>

\* SiteContext.GetStats and GetMemoryUsage: sc.mutex.RLock() and the deferred RUnlock.
ReaderProgram(i) == <<I("RLock", i), I("RUnlock", i)>>

\* evictOldestContext, called with m.mutex held: context.GetStats() of every context.
evictOldestContextProgram(cs) == <<RangeOver(Range(cs), <<"RLock", "RUnlock">>)>>

GetOrCreateProgram(cs, max, host) ==
  <<I("Lock", RegistryMutex)>>
    \o (IF host \notin DOMAIN cs /\ Cardinality(DOMAIN cs) >= max
        THEN evictOldestContextProgram(cs)
        ELSE << >>)
    \o <<I("Unlock", RegistryMutex)>>

\* Get, GetAllHosts and the second half of SiteContextManager.UpdateLimits (the limiter
\* has no lock): m.mutex.RLock() and the deferred RUnlock.
RegistryReadProgram == <<I("RLock", RegistryMutex), I("RUnlock", RegistryMutex)>>

\* SiteContextManager.GetStats: context.GetStats() of every context under m.mutex.RLock().
ManagerGetStatsProgram(cs) ==
  <<I("RLock", RegistryMutex), RangeOver(Range(cs), <<"RLock", "RUnlock">>),
    I("RUnlock", RegistryMutex)>>

RemoveContextProgram(cs, host) ==
  <<I("Lock", RegistryMutex)>>
    \o (IF host \in DOMAIN cs THEN MutatorProgram(cs[host]) ELSE << >>)
    \o <<I("Unlock", RegistryMutex)>>

\* PerformGlobalCleanup: CleanupOldData and GetStats of every context, then
\* evictOldestContext when the map is still above maxContexts (either way here).
PerformGlobalCleanupPrograms(cs) ==
  {<<I("Lock", RegistryMutex),
     RangeOver(Range(cs), <<"Lock", "Unlock", "RLock", "RUnlock">>)>>
     \o evict \o <<I("Unlock", RegistryMutex)>> :
       evict \in {<< >>, evictOldestContextProgram(cs)}}

\* Stop, after the channel and the ticker: CleanupOldData of every context.
StopProgram(cs) ==
  <<I("Lock", RegistryMutex), RangeOver(Range(cs), <<"Lock", "Unlock">>),
    I("Unlock", RegistryMutex)>>

Idle == [op |-> "idle", prog |-> << >>]
Running(op, prog) == [op |-> op, prog |-> prog]
Instr(t) == threads[t].prog[1]
At(t, ins) == threads[t].prog # << >> /\ Instr(t).ins = ins
\* The goroutine moves on; after the deferred unlock, its last operation, it returns.
Advance(t, prog) ==
  threads' = [threads EXCEPT ![t] = IF prog = << >> THEN Idle ELSE Running(@.op, prog)]
Unheld == <<now, limits, heap, contexts, maxContexts, lastOp, nonStale, budget, arrived,
            mgr, locks>>

\* Goroutine t enters a method.
ThreadCall(t, op, prog) ==
  /\ threads[t] = Idle
  /\ threads' = [threads EXCEPT ![t] = Running(op, prog)]
  /\ UNCHANGED <<mutexes>>
  /\ UNCHANGED Unheld

\* Lock(): the caller announces itself, which holds back the readers that come after.
LockAnnounce(t) ==
  /\ At(t, "Lock")
  /\ mutexes' = [mutexes EXCEPT ![Instr(t).m].waiting = @ \cup {t}]
  /\ Advance(t, <<I("Acquire", Instr(t).m)>> \o Tail(threads[t].prog))
  /\ UNCHANGED Unheld

\* Lock() returns once no goroutine holds the mutex.
LockAcquire(t) ==
  /\ At(t, "Acquire")
  /\ mutexes[Instr(t).m].writer = 0
  /\ mutexes[Instr(t).m].readers = {}
  /\ mutexes' = [mutexes EXCEPT ![Instr(t).m].writer = t, ![Instr(t).m].waiting = @ \ {t}]
  /\ Advance(t, Tail(threads[t].prog))
  /\ UNCHANGED Unheld

\* RLock() returns once no goroutine holds the mutex for writing or waits in Lock().
RLock(t) ==
  /\ At(t, "RLock")
  /\ mutexes[Instr(t).m].writer = 0
  /\ mutexes[Instr(t).m].waiting = {}
  /\ mutexes' = [mutexes EXCEPT ![Instr(t).m].readers = @ \cup {t}]
  /\ Advance(t, Tail(threads[t].prog))
  /\ UNCHANGED Unheld

Unlock(t) ==
  /\ At(t, "Unlock")
  /\ mutexes' = [mutexes EXCEPT ![Instr(t).m].writer = 0]
  /\ Advance(t, Tail(threads[t].prog))
  /\ UNCHANGED Unheld

RUnlock(t) ==
  /\ At(t, "RUnlock")
  /\ mutexes' = [mutexes EXCEPT ![Instr(t).m].readers = @ \ {t}]
  /\ Advance(t, Tail(threads[t].prog))
  /\ UNCHANGED Unheld

\* for host, context := range m.contexts: the next context, in any order.
RangeNext(t) ==
  /\ At(t, "range")
  /\ \E i \in Instr(t).todo :
       Advance(t, Body(i, Instr(t).body)
                    \o <<RangeOver(Instr(t).todo \ {i}, Instr(t).body)>>
                    \o Tail(threads[t].prog))
  /\ UNCHANGED <<mutexes>>
  /\ UNCHANGED Unheld

RangeEnd(t) ==
  /\ At(t, "range")
  /\ Instr(t).todo = {}
  /\ Advance(t, Tail(threads[t].prog))
  /\ UNCHANGED <<mutexes>>
  /\ UNCHANGED Unheld

\* PerformGlobalCleanup in the steps other goroutines can come between: m.mutex.Lock()
\* returns and the range over m.contexts begins.
SweepLock(t) ==
  /\ Spend
  /\ threads[t] = Idle
  /\ mutexes[RegistryMutex].writer = 0
  /\ mutexes[RegistryMutex].readers = {}
  /\ mutexes' = [mutexes EXCEPT ![RegistryMutex].writer = t]
  /\ threads' = [threads EXCEPT
                   ![t] = Running("PerformGlobalCleanup",
                                  <<RangeOver(Range(contexts), <<"CleanupOldData">>),
                                    I("Unlock", RegistryMutex)>>)]
  /\ lastOp' = OpHosts("PerformGlobalCleanup", DOMAIN contexts, "")
  /\ UNCHANGED <<now, limits, heap, contexts, maxContexts, nonStale, arrived, mgr, locks>>

\* The body of the range for one context: CleanupOldData, then the entry is deleted if
\* m.limiter.ShouldCleanup(last_activity); each reads the limiter as it is by then.
SweepClean(t) ==
  /\ At(t, "CleanupOldData")
  /\ \E sc \in CleanupOldData(heap[Instr(t).m], limits, now) :
       /\ heap' = [heap EXCEPT ![Instr(t).m] = sc]
       /\ contexts' = IF ShouldCleanup(limits, now, sc.lastActivity)
                      THEN MapRestrict(contexts, {h \in DOMAIN contexts :
                                                    contexts[h] # Instr(t).m})
                      ELSE contexts
  /\ Advance(t, Tail(threads[t].prog))
  /\ UNCHANGED <<now, limits, maxContexts, lastOp, nonStale, budget, arrived, mgr, locks,
                 mutexes>>

\* After the range: evictOldestContext above maxContexts, lastGlobalCleanup, and the
\* deferred m.mutex.Unlock().
SweepUnlock(t) ==
  /\ At(t, "Unlock")
  /\ threads[t].op = "PerformGlobalCleanup"
  /\ contexts' \in (IF Cardinality(DOMAIN contexts) > maxContexts
                     THEN evictOldestContext(contexts, heap, now)
                     ELSE {contexts})
  /\ mgr' = [mgr EXCEPT !.lastGlobalCleanup = now]
  /\ mutexes' = [mutexes EXCEPT ![RegistryMutex].writer = 0]
  /\ Advance(t, Tail(threads[t].prog))
  /\ lastOp' = OpHosts("PerformGlobalCleanup", DOMAIN contexts', "ok")
  /\ UNCHANGED <<now, limits, heap, maxContexts, nonStale, budget, arrived, locks>>

\* SiteContextManager.UpdateLimits up to its m.mutex.RLock(): m.limiter.UpdateLimits has
\* tested and stored the policy, with no lock held; an error returns at once.
SwapLimits(t, new) ==
  /\ Spend
  /\ threads[t] = Idle
  /\ LET out == ManagerUpdateLimits(limits, new)
     IN /\ limits' = out.limits
        /\ lastOp' = OpLimits("Manager.UpdateLimits", new, out.ret)
        /\ threads' = [threads EXCEPT
                         ![t] = IF out.ret = "ok"
                                THEN Running("Manager.UpdateLimits", RegistryReadProgram)
                                ELSE Idle]
  /\ UNCHANGED <<now, heap, contexts, maxContexts, nonStale, arrived, mgr, locks, mutexes>>

\* Stop in steps, for goroutines that call it at the same time. The test and the
\* writes of m.cleanupTicker are not synchronised; the steps below are their
\* sequentially consistent interleavings, which are among the executions of the race.
\* A goroutine that panics stays where it is.
Panicked == [op |-> "panic", prog |-> << >>]

\* if m.cleanupTicker != nil
StopTest(t) ==
  /\ Spend
  /\ threads[t] = Idle
  /\ threads' = [threads EXCEPT
                   ![t] = Running("Stop",
                            (IF mgr.cleanupTicker
                             THEN <<I("close", RegistryMutex), I("tickerStop", RegistryMutex),
                                    I("clear", RegistryMutex)>>
                             ELSE << >>) \o <<I("pass", RegistryMutex)>>)]
  /\ lastOp' = OpHosts("Stop", DOMAIN contexts, "")
  /\ UNCHANGED <<now, limits, heap, contexts, maxContexts, nonStale, arrived, mgr, locks, mutexes>>

\* close(m.stopChan): the close of a closed channel panics.
StopClose(t) ==
  /\ At(t, "close")
  /\ IF mgr.stopChan = "closed"
     THEN /\ threads' = [threads EXCEPT ![t] = Panicked]
          /\ lastOp' = OpHosts("Stop", DOMAIN contexts, "panic")
          /\ UNCHANGED mgr
     ELSE /\ mgr' = [mgr EXCEPT !.stopChan = "closed"]
          /\ Advance(t, Tail(threads[t].prog))
          /\ UNCHANGED lastOp
  /\ UNCHANGED <<now, limits, heap, contexts, maxContexts, nonStale, budget, arrived, locks, mutexes>>

\* m.cleanupTicker.Stop(): the field is read again, and Stop of a nil ticker panics.
StopTicker(t) ==
  /\ At(t, "tickerStop")
  /\ IF mgr.cleanupTicker
     THEN Advance(t, Tail(threads[t].prog)) /\ UNCHANGED lastOp
     ELSE /\ threads' = [threads EXCEPT ![t] = Panicked]
          /\ lastOp' = OpHosts("Stop", DOMAIN contexts, "panic")
  /\ UNCHANGED <<now, limits, heap, contexts, maxContexts, nonStale, budget, arrived, mgr, locks, mutexes>>

\* m.cleanupTicker = nil
StopClear(t) ==
  /\ At(t, "clear")
  /\ mgr' = [mgr EXCEPT !.cleanupTicker = FALSE]
  /\ Advance(t, Tail(threads[t].prog))
  /\ UNCHANGED <<now, limits, heap, contexts, maxContexts, lastOp, nonStale, budget, arrived, locks, mutexes>>

\* m.mutex.Lock(), CleanupOldData of every context, the deferred Unlock; Stop returns.
StopPass(t) ==
  /\ At(t, "pass")
  /\ heap' \in CleanupEach(contexts, heap, limits, now, Len(heap))
  /\ Advance(t, Tail(threads[t].prog))
  /\ lastOp' = OpHosts("Stop", DOMAIN contexts, "ok")
  /\ UNCHANGED <<now, limits, contexts, maxContexts, nonStale, budget, arrived, mgr, locks, mutexes>>

----------------------------------------------------------------------------
(* Specifications *)

\* A context built by NewSiteContext("a") and used directly, as the package's tests do.
InitCtx ==
  /\ now = StartTime
  /\ limits = DefaultContextLimits
  /\ heap = <<NewSiteContext("a", StartTime)>>
  /\ contexts = EmptyMap
  /\ maxContexts = MaxMaxContexts
  /\ lastOp = NoOp
  /\ nonStale = <<0>>
  /\ budget = Unbounded
  /\ arrived = << << >> >>
  /\ mgr = NewSiteContextManagerWithOptions(FALSE, OptsLimiter, StartTime)
  /\ locks = Unlocked
  /\ mutexes = << >>
  /\ threads = << >>

\* A registry built by NewSiteContextManagerWithOptions with MaxContexts >= 1.
Init ==
  /\ now = StartTime
  /\ limits = DefaultContextLimits
  /\ heap = << >>
  /\ contexts = EmptyMap
  /\ maxContexts \in 1 .. MaxMaxContexts
  /\ lastOp = NoOp
  /\ nonStale = << >>
  /\ budget = RegistryCalls
  /\ arrived = << >>
  /\ mgr = NewSiteContextManagerWithOptions(FALSE, OptsLimiter, StartTime)
  /\ locks = Unlocked
  /\ mutexes = << >>
  /\ threads = << >>

Requests == {TimedRequest(id, ts) : id \in ReqIds, ts \in Times}
Forms == {HTMLForm(id, ts) : id \in FormIds, ts \in Times}
Mappings == {ResourceMapping(k, ts) : k \in ResourceKeys, ts \in Times}
Notes == {URLNote(c) : c \in NoteContents}

\* The patterns a caller hands to the context: none, one without notes, one with a
\* note more than the cap (the registry hands one with a single note).
PatternKeys == {PatternKey(m, u) : m \in Methods, u \in URLs}
LongNotes == [n \in 1 .. CapNotes + 1 |-> URLNote("n")]
Patterns == {NilPattern, URLPattern("", << >>), URLPattern("", LongNotes)}

NextReq ==
  \/ Tick
  \/ \E request \in Requests : CallAddRecentRequest(1, request)
  \/ CallCleanupOldData(1)

SpecReq == InitCtx /\ [][NextReq]_vars

\* A fresh context that only takes requests.
NextAdd ==
  \/ Tick
  \/ \E request \in Requests : CallAddRecentRequest(1, request)

SpecAdd == InitCtx /\ [][NextAdd]_vars

\* The policies a caller hands to UpdateLimits: every mix of zero and one, and the
\* default policy with one field negative, at its ceiling, or one above it.
WithField(lim, field, value) == [lim EXCEPT ![field] = value]
Ceilings ==
  [MaxRecentRequests |-> CeilingRecentRequests,
   MaxForms          |-> CeilingForms,
   MaxResources      |-> CeilingResources,
   MaxURLPatterns    |-> CeilingURLPatterns,
   MaxNotesPerURL    |-> CeilingNotesPerURL]
Policies ==
  [MaxRecentRequests : {0, 1}, MaxForms : {0, 1}, MaxResources : {0, 1},
   MaxAgeHours : {0, 1}, MaxURLPatterns : {0, 1}, MaxNotesPerURL : {0, 1}]
    \cup {WithField(DefaultContextLimits, f, 0 - 1) : f \in DOMAIN DefaultContextLimits}
    \cup {WithField(DefaultContextLimits, f, Ceilings[f] + d) :
            f \in DOMAIN Ceilings, d \in {0, 1}}

\* A limiter and the registry that holds it.
InitLim ==
  /\ now = StartTime
  /\ limits = DefaultContextLimits
  /\ heap = << >>
  /\ contexts = EmptyMap
  /\ maxContexts = MaxMaxContexts
  /\ lastOp = NoOp
  /\ nonStale = << >>
  /\ budget = Unbounded
  /\ arrived = << >>
  /\ mgr = NewSiteContextManagerWithOptions(FALSE, OptsLimiter, StartTime)
  /\ locks = Unlocked
  /\ mutexes = << >>
  /\ threads = << >>

NextLim ==
  \/ \E new \in Policies : CallLimiterUpdateLimits(new)
  \/ \E new \in Policies : CallManagerUpdateLimits(new)
  \/ CallGetLimits
  \/ CallValidateLimits

SpecLim == InitLim /\ [][NextLim]_vars

\* Workers on one context, each call as the package's thread-safety test makes it: a
\* request and a form stamped with the time of the call, a pattern built from a note.
Workers == {1, 2}
WorkerCalls ==
  {Op("AddRecentRequest", 1, "a", id, now, NilPattern, NilNote, "") : id \in ReqIds}
    \cup {Op("AddForm", 1, "a", id, now, NilPattern, NilNote, "") : id \in FormIds}
    \cup {Op("UpdateURLPattern", 1, "a", key, 0, NilPattern, URLNote("n"), "") :
            key \in PatternKeys}

NextConc ==
  \/ Tick
  \/ \E w \in Workers, call \in WorkerCalls : WorkerLock(w, call)
  \/ \E w \in Workers : WorkerRun(w)

InitBounded ==
  /\ now = StartTime
  /\ limits = DefaultContextLimits
  /\ heap = <<NewSiteContext("a", StartTime)>>
  /\ contexts = EmptyMap
  /\ maxContexts = MaxMaxContexts
  /\ lastOp = NoOp
  /\ nonStale = <<0>>
  /\ budget = MaxCalls
  /\ arrived = << << >> >>
  /\ mgr = NewSiteContextManagerWithOptions(FALSE, OptsLimiter, StartTime)
  /\ locks = Unlocked
  /\ mutexes = << >>
  /\ threads = << >>

NextCtx ==
  \/ Tick
  \/ \E request \in Requests : CallAddRecentRequest(1, request)
  \/ \E form \in Forms : CallAddForm(1, form)
  \/ \E mapping \in Mappings : CallAddResourceMapping(1, mapping.resourcePath, mapping)
  \/ \E key \in PatternKeys, pattern \in Patterns, note \in Notes :
       CallUpdateURLPattern(1, key, pattern, note)
  \/ \E method \in Methods, url \in URLs, note \in Notes :
       CallManagerUpdateURLPattern(1, url, method, note)
  \/ CallCleanupOldData(1)

SpecCtx == InitBounded /\ [][NextCtx]_vars

SpecConc == InitBounded /\ [][NextConc]_vars

\* The pattern map of one context under calls whose arguments may be nil.
AllNotes == Notes \cup {NilNote}

NextArg ==
  \/ \E key \in PatternKeys, pattern \in Patterns, note \in AllNotes :
       CallUpdateURLPattern(1, key, pattern, note)
  \/ \E i \in {0, 1}, method \in Methods, url \in URLs, note \in AllNotes :
       CallManagerUpdateURLPattern(i, url, method, note)

SpecArg == InitBounded /\ [][NextArg]_vars

\* The pattern map of one context; no timestamp takes part, the clock stands still.
NextPat ==
  \/ \E key \in PatternKeys, pattern \in Patterns, note \in Notes :
       CallUpdateURLPattern(1, key, pattern, note)
  \/ \E method \in Methods, url \in URLs, note \in Notes :
       CallManagerUpdateURLPattern(1, url, method, note)

SpecPat == InitCtx /\ [][NextPat]_vars

\* The registry and the workers that hold the contexts it returned (a worker keeps
\* its handle after the context is evicted). A worker's request is stamped with the
\* time of the call, or with the epoch.
Touches == {TimedRequest("r1", ts) : ts \in {0, now}}

Next ==
  \/ Tick
  \/ \E host \in Hosts : CallGetOrCreate(host)
  \/ \E i \in Instances, request \in Touches : CallAddRecentRequest(i, request)
  \/ \E host \in Hosts : CallRemoveContext(host)

Spec == Init /\ [][Next]_vars

\* The registry, its workers, removal and the lookups.
NextRemove ==
  \/ Tick
  \/ \E host \in Hosts : CallGetOrCreate(host)
  \/ \E i \in Instances, request \in Touches : CallAddRecentRequest(i, request)
  \/ \E host \in Hosts : CallRemoveContext(host)
  \/ \E host \in Hosts : CallGet(host)
  \/ CallGetAllHosts

SpecRemove == Init /\ [][NextRemove]_vars

\* A registry with or without the cleanup goroutine (opts.CleanupInterval > 0 or
\* not), its workers, and Stop called any number of times, one call after another.
StopCalls == MaxCalls + 1

InitStop ==
  /\ now = StartTime
  /\ limits = DefaultContextLimits
  /\ heap = << >>
  /\ contexts = EmptyMap
  /\ maxContexts = MaxMaxContexts
  /\ lastOp = NoOp
  /\ nonStale = << >>
  /\ budget = StopCalls
  /\ arrived = << >>
  /\ \E scheduled \in BOOLEAN : mgr = NewSiteContextManagerWithOptions(scheduled, OptsLimiter, StartTime)
  /\ locks = Unlocked
  /\ mutexes = << >>
  /\ threads = << >>

NextStop ==
  \/ Tick
  \/ \E host \in Hosts : CallGetOrCreate(host)
  \/ \E i \in Instances, request \in Touches : CallAddRecentRequest(i, request)
  \/ CallStop
  \/ TickerFire
  \/ SchedulerTick
  \/ SchedulerExit

SpecStop == InitStop /\ [][NextStop]_vars

\* The same registry with the sweep also called explicitly, and a cleanup goroutine
\* that is not starved: whenever it stays able to take a case of its select, it does.
NextSched ==
  \/ Tick
  \/ \E host \in Hosts : CallGetOrCreate(host)
  \/ \E i \in Instances, request \in Touches : CallAddRecentRequest(i, request)
  \/ CallPerformGlobalCleanup
  \/ CallStop
  \/ TickerFire
  \/ SchedulerTick
  \/ SchedulerExit

SpecSched ==
  InitStop /\ [][NextSched]_vars /\ WF_vars(SchedulerTick \/ SchedulerExit)

\* The registry with a clock that keeps going to the end of the horizon, a ticker that
\* keeps firing while it runs, and a goroutine that takes the ticks.
SpecTick ==
  /\ InitStop
  /\ [][NextStop]_vars
  /\ WF_vars(Tick)
  /\ WF_vars(TickerFire)
  /\ WF_vars(SchedulerTick)

\* The registry, its workers and the sweep, called explicitly.
NextSweep ==
  \/ Tick
  \/ \E host \in Hosts : CallGetOrCreate(host)
  \/ \E i \in Instances, request \in Touches : CallAddRecentRequest(i, request)
  \/ CallPerformGlobalCleanup

SpecSweep == Init /\ [][NextSweep]_vars

\* The goroutines of a program that uses the registry, at the grain of the lock
\* operations: two workers that call any method of the registry and of the contexts they
\* hold, and the cleanup goroutine. The registry holds none, one or both of the contexts
\* the workers have handles on.
MaxThreads == 3
Threads == 1 .. MaxThreads
SchedulerThread == MaxThreads

InitLock ==
  /\ now = StartTime
  /\ limits = DefaultContextLimits
  /\ heap = <<NewSiteContextWithLimiter("a", OptsLimiter, StartTime),
            NewSiteContextWithLimiter("b", OptsLimiter, StartTime)>>
  /\ contexts \in {EmptyMap, MapPut(EmptyMap, "a", 1), MapPut(MapPut(EmptyMap, "a", 1), "b", 2)}
  /\ maxContexts = MaxMaxContexts
  /\ lastOp = NoOp
  /\ nonStale = <<0, 0>>
  /\ budget = Unbounded
  /\ arrived = << << >>, << >> >>
  /\ mgr = NewSiteContextManagerWithOptions(TRUE, OptsLimiter, StartTime)
  /\ locks = Unlocked
  /\ mutexes = [m \in 0 .. Len(heap) |-> Free]
  /\ threads = [t \in Threads |-> Idle]

WorkerPrograms ==
  {Running(op, MutatorProgram(i)) :
     op \in {"AddRecentRequest", "AddForm", "AddResourceMapping", "UpdateURLPattern",
             "CleanupOldData"}, i \in Instances}
    \cup {Running(op, ReaderProgram(i)) : op \in {"GetStats", "GetMemoryUsage"}, i \in Instances}
    \cup {Running("GetOrCreate", GetOrCreateProgram(contexts, maxContexts, host)) : host \in Hosts}
    \cup {Running(op, RegistryReadProgram) : op \in {"Get", "GetAllHosts", "Manager.UpdateLimits"}}
    \cup {Running("Manager.GetStats", ManagerGetStatsProgram(contexts))}
    \cup {Running("RemoveContext", RemoveContextProgram(contexts, host)) : host \in Hosts}
    \cup {Running("PerformGlobalCleanup", prog) : prog \in PerformGlobalCleanupPrograms(contexts)}
    \cup {Running("Stop", StopProgram(contexts))}

NextLock ==
  \/ \E t \in Threads \ {SchedulerThread}, call \in WorkerPrograms :
       ThreadCall(t, call.op, call.prog)
  \/ \E prog \in PerformGlobalCleanupPrograms(contexts) :
       ThreadCall(SchedulerThread, "PerformGlobalCleanup", prog)
  \/ \E t \in Threads : LockAnnounce(t)
  \/ \E t \in Threads : LockAcquire(t)
  \/ \E t \in Threads : RLock(t)
  \/ \E t \in Threads : Unlock(t)
  \/ \E t \in Threads : RUnlock(t)
  \/ \E t \in Threads : RangeNext(t)
  \/ \E t \in Threads : RangeEnd(t)

SpecLock == InitLock /\ [][NextLock]_vars

\* A registry of two contexts, each with a request of its worker, whose cleanup goroutine
\* sweeps in steps while a worker calls UpdateLimits; the clock stands still. The worker's policies lower one cap of
\* the default policy to one, raise MaxAgeHours by one, or have a field at zero.
Lowered ==
  {WithField(DefaultContextLimits, f, 1) : f \in DOMAIN DefaultContextLimits \ {"MaxAgeHours"}}
    \cup {WithField(DefaultContextLimits, "MaxAgeHours", MaxAge + 1)}
    \cup {DefaultContextLimits}
SwapPolicies == Lowered \cup {WithField(DefaultContextLimits, "MaxForms", 0)}
SwapWorker == 1

InitSwap ==
  /\ now = StartTime
  /\ limits = DefaultContextLimits
  /\ heap = [i \in 1 .. 2 |->
               AddRecentRequest(NewSiteContextWithLimiter(IF i = 1 THEN "a" ELSE "b",
                                                          OptsLimiter, StartTime),
                                DefaultContextLimits, StartTime,
                                TimedRequest("r1", StartTime))]
  /\ contexts = MapPut(MapPut(EmptyMap, "a", 1), "b", 2)
  /\ maxContexts = MaxMaxContexts
  /\ lastOp = NoOp
  /\ nonStale = <<1, 1>>
  /\ budget = RegistryCalls
  /\ arrived = [i \in 1 .. 2 |-> <<TimedRequest("r1", StartTime)>>]
  /\ mgr = NewSiteContextManagerWithOptions(TRUE, OptsLimiter, StartTime)
  /\ locks = Unlocked
  /\ mutexes = [m \in {RegistryMutex} |-> Free]
  /\ threads = [t \in {SwapWorker, SchedulerThread} |-> Idle]

NextSwap ==
  \/ \E new \in SwapPolicies : SwapLimits(SwapWorker, new)
  \/ RLock(SwapWorker)
  \/ RUnlock(SwapWorker)
  \/ SweepLock(SchedulerThread)
  \/ RangeNext(SchedulerThread)
  \/ RangeEnd(SchedulerThread)
  \/ SweepClean(SchedulerThread)
  \/ SweepUnlock(SchedulerThread)

SpecSwap == InitSwap /\ [][NextSwap]_vars

\* A context of the registry whose policy is replaced while the context is in use: a
\* worker fills the context it got from GetOrCreate("a"), UpdateLimits lowers the caps
\* or lengthens MaxAge, and the context is used and cleaned under the new policy.
LowCaps ==
  [DefaultContextLimits EXCEPT !.MaxRecentRequests = 1, !.MaxForms = 1, !.MaxResources = 1,
                               !.MaxURLPatterns = 1, !.MaxNotesPerURL = 1]
LongAge == WithField(DefaultContextLimits, "MaxAgeHours", MaxAge + 1)
NewPolicies == {LowCaps, LongAge, WithField(DefaultContextLimits, "MaxForms", 0)}
Earlier == StartTime - 1

InitPolicy ==
  /\ now = StartTime
  /\ limits = DefaultContextLimits
  /\ heap = <<NewSiteContextWithLimiter("a", OptsLimiter, StartTime)>>
  /\ contexts = MapPut(EmptyMap, "a", 1)
  /\ maxContexts = MaxMaxContexts
  /\ lastOp = NoOp
  /\ nonStale = <<0>>
  /\ budget = RegistryCalls
  /\ arrived = << << >> >>
  /\ mgr = NewSiteContextManagerWithOptions(FALSE, OptsLimiter, StartTime)
  /\ locks = Unlocked
  /\ mutexes = << >>
  /\ threads = << >>

NextPolicy ==
  \/ Tick
  \/ \E request \in Touches : CallAddRecentRequest(1, request)
  \/ \E id \in FormIds : CallAddForm(1, HTMLForm(id, Earlier))
  \/ \E key \in ResourceKeys : CallAddResourceMapping(1, key, ResourceMapping(key, Earlier))
  \/ \E url \in URLs : CallManagerUpdateURLPattern(1, url, "GET", URLNote("n"))
  \/ CallCleanupOldData(1)
  \/ \E new \in NewPolicies : CallManagerUpdateLimits(new)

SpecPolicy == InitPolicy /\ [][NextPolicy]_vars

\* A registry whose policy is replaced between the creation of its contexts: workers
\* use the contexts they got, the contexts are cleaned, swept and removed, the
\* registry is stopped.
PolicyHosts == {"a", "b"}

InitShared ==
  /\ now = StartTime
  /\ limits = DefaultContextLimits
  /\ heap = << >>
  /\ contexts = EmptyMap
  /\ maxContexts = MaxMaxContexts
  /\ lastOp = NoOp
  /\ nonStale = << >>
  /\ budget = RegistryCalls
  /\ arrived = << >>
  /\ mgr = NewSiteContextManagerWithOptions(FALSE, OptsLimiter, StartTime)
  /\ locks = Unlocked
  /\ mutexes = << >>
  /\ threads = << >>

NextShared ==
  \/ Tick
  \/ \E host \in PolicyHosts : CallGetOrCreate(host)
  \/ \E i \in Instances, request \in Touches : CallAddRecentRequest(i, request)
  \/ \E i \in Instances : CallAddForm(i, HTMLForm("f1", Earlier))
  \/ \E i \in Instances : CallManagerUpdateURLPattern(i, "/a", "GET", URLNote("n"))
  \/ \E i \in Instances : CallCleanupOldData(i)
  \/ CallPerformGlobalCleanup
  \/ \E host \in PolicyHosts : CallRemoveContext(host)
  \/ CallStop
  \/ \E new \in NewPolicies : CallManagerUpdateLimits(new)

SpecShared == InitShared /\ [][NextShared]_vars

\* Workers in the methods of one context, and goroutines that hand the same context
\* to the helpers TrackRequest and UpdateResourceMapping.
HelperPaths ==
  {<<"api", "u", "1">>, <<"api", "p">>, <<"api", "v1", "o">>, <<"u", "1">>, <<"static", "x">>,
   << >>}

NextHelpers ==
  \/ Tick
  \/ \E w \in Workers, call \in WorkerCalls : WorkerLock(w, call)
  \/ \E w \in Workers : WorkerRun(w)
  \/ \E id \in ReqIds : HelperTrackRequest(id)
  \/ \E method \in Methods, path \in HelperPaths : HelperUpdateResourceMapping(method, path)

SpecHelpers == InitBounded /\ [][NextHelpers]_vars

\* A registry built by NewSiteContextManagerWithOptions from options whose Limits
\* field is set or left nil, and the workers that hold the contexts it returned.
InitOptions ==
  /\ now = StartTime
  /\ limits = DefaultContextLimits
  /\ heap = << >>
  /\ contexts = EmptyMap
  /\ maxContexts = MaxMaxContexts
  /\ lastOp = NoOp
  /\ nonStale = << >>
  /\ budget = RegistryCalls
  /\ arrived = << >>
  /\ \E limiter \in {NilLimiter, OptsLimiter} :
       mgr = NewSiteContextManagerWithOptions(FALSE, limiter, StartTime)
  /\ locks = Unlocked
  /\ mutexes = << >>
  /\ threads = << >>

NextOptions ==
  \/ Tick
  \/ \E host \in Hosts : CallGetOrCreate(host)
  \/ \E i \in Instances, request \in Touches : CallAddRecentRequest(i, request)
  \/ \E host \in Hosts : CallRemoveContext(host)

SpecOptions == InitOptions /\ [][NextOptions]_vars

\* A registry with a running scheduler and one context, and two goroutines that call
\* Stop whenever they like.
Stoppers == {1, 2}

InitStoppers ==
  /\ now = StartTime
  /\ limits = DefaultContextLimits
  /\ heap = <<AddRecentRequest(NewSiteContextWithLimiter("a", OptsLimiter, StartTime),
                                DefaultContextLimits, StartTime,
                                TimedRequest("r1", StartTime))>>
  /\ contexts = MapPut(EmptyMap, "a", 1)
  /\ maxContexts = MaxMaxContexts
  /\ lastOp = NoOp
  /\ nonStale = <<1>>
  /\ budget = StopCalls
  /\ arrived = <<<<TimedRequest("r1", StartTime)>>>>
  /\ mgr = NewSiteContextManagerWithOptions(TRUE, OptsLimiter, StartTime)
  /\ locks = Unlocked
  /\ mutexes = << >>
  /\ threads = [t \in Stoppers |-> Idle]

NextStoppers ==
  \/ Tick
  \/ TickerFire
  \/ SchedulerTick
  \/ SchedulerExit
  \/ \E t \in Stoppers : StopTest(t)
  \/ \E t \in Stoppers : StopClose(t)
  \/ \E t \in Stoppers : StopTicker(t)
  \/ \E t \in Stoppers : StopClear(t)
  \/ \E t \in Stoppers : StopPass(t)

SpecStoppers == InitStoppers /\ [][NextStoppers]_vars

----------------------------------------------------------------------------
(* Properties *)

\* A step that is a call of op: every step but Tick is a call and records itself.
Called(op) == now' = now /\ lastOp'.op = op

Size(m) == Cardinality(DOMAIN m)
LastActivityOf(h) == heap[contexts[h]].lastActivity

\* C1 (as claimed): after every GetOrCreate call the registry holds at most MaxContexts
\* contexts, whatever the workers did to the contexts returned before. Stated for
\* registries of non-empty host names, where the guard oldestHost != "" plays no part.
C1_RegistryBound ==
  (lastOp.op = "GetOrCreate" /\ "" \notin DOMAIN contexts) => Size(contexts) <= maxContexts

\* C2 (as claimed): with the registry at MaxContexts and the lastActivity values
\* pairwise distinct and none later than the clock, GetOrCreate of an absent host
\* removes exactly the context of the smallest lastActivity, inserts the new host and
\* keeps every other entry. Stated for non-empty host names.
C2_EvictsOldest ==
  [][(/\ Called("GetOrCreate")
      /\ lastOp'.host \notin DOMAIN contexts
      /\ "" \notin DOMAIN contexts'
      /\ Size(contexts) = maxContexts
      /\ \A g, h \in DOMAIN contexts : g # h => LastActivityOf(g) # LastActivityOf(h)
      /\ \A h \in DOMAIN contexts : LastActivityOf(h) <= now)
     => \E victim \in DOMAIN contexts :
          /\ \A h \in DOMAIN contexts : LastActivityOf(victim) <= LastActivityOf(h)
          /\ DOMAIN contexts' = (DOMAIN contexts \ {victim}) \cup {lastOp'.host}
          /\ \A h \in DOMAIN contexts \ {victim} : contexts'[h] = contexts[h]]_vars

Mutators == {"AddRecentRequest", "AddForm", "AddResourceMapping", "UpdateURLPattern",
             "Manager.UpdateURLPattern"}

\* C3: for a context under a fixed policy, after every AddRecentRequest or
\* CleanupOldData call recentRequests holds at most MaxRecentRequests requests.
C3_RequestBound ==
  \A i \in Instances : Len(heap[i].recentRequests) <= limits.MaxRecentRequests

\* C3's case: a request arrived at a full list and the head was cut.
C3_Witness ==
  /\ lastOp.op = "AddRecentRequest"
  /\ heap[1].requestCount > limits.MaxRecentRequests
  /\ Len(heap[1].recentRequests) = limits.MaxRecentRequests
  /\ heap[1].recentRequests[Len(heap[1].recentRequests)].id = lastOp.key

\* C4 (as claimed): after every AddForm call forms holds at most MaxForms forms and
\* after every AddResourceMapping call resourceCRUD holds at most MaxResources
\* mappings, whatever firstSeen / detectedAt the stored items carry.
C4_FormResourceBound ==
  \A i \in Instances :
    /\ (lastOp.op = "AddForm" /\ lastOp.inst = i)
         => Size(heap[i].forms) <= limits.MaxForms
    /\ (lastOp.op = "AddResourceMapping" /\ lastOp.inst = i)
         => Size(heap[i].resourceCRUD) <= limits.MaxResources

\* C5 (as claimed): after every UpdateURLPattern call with a non-nil note urlPatterns
\* holds at most MaxURLPatterns patterns.
C5_PatternBound ==
  \A i \in Instances : Size(heap[i].urlPatterns) <= limits.MaxURLPatterns

\* C6 (as claimed): after every UpdateURLPattern call every stored pattern has at
\* most MaxNotesPerURL notes, for an existing key and for a new one.
C6_NoteBound ==
  \A i \in Instances : \A k \in DOMAIN heap[i].urlPatterns :
    Len(heap[i].urlPatterns[k].notes) <= limits.MaxNotesPerURL

\* C7: GetOrCreate returns the context the registry holds for the host afterwards; for
\* a host already present that is the context it held before, and the call changes
\* neither the registry map nor any context (nothing is evicted, also at MaxContexts);
\* an entry of the map changes only by being deleted. So two GetOrCreate(host) calls
\* with no eviction or removal of host between them return the same instance.
C7_IdempotentIdentity ==
  [][/\ Called("GetOrCreate") =>
          /\ lastOp'.host \in DOMAIN contexts'
          /\ contexts'[lastOp'.host] = lastOp'.inst
          /\ lastOp'.host \in DOMAIN contexts =>
               /\ lastOp'.inst = contexts[lastOp'.host]
               /\ contexts' = contexts
               /\ heap' = heap
     /\ \A h \in DOMAIN contexts \cap DOMAIN contexts' : contexts'[h] = contexts[h]]_vars

\* C7's case: at MaxContexts, GetOrCreate of a present host returned the context
\* created earlier, which a worker has used since, and newer contexts exist.
C7_Witness ==
  /\ lastOp.op = "GetOrCreate"
  /\ Size(contexts) = maxContexts
  /\ lastOp.host \in DOMAIN contexts
  /\ contexts[lastOp.host] = lastOp.inst
  /\ lastOp.inst < Len(heap)
  /\ heap[lastOp.inst].requestCount > 0

C9_MonotonicLastActivity ==
  [][\A i \in Instances :
       /\ heap'[i].lastActivity >= heap[i].lastActivity
       /\ (/\ now' = now
           /\ lastOp'.op \in Mutators
           /\ lastOp'.inst = i
           /\ lastOp'.ret = "ok"
           /\ lastOp'.op = "AddRecentRequest" => lastOp'.ts >= now - limits.MaxAgeHours)
          => heap'[i].lastActivity = now]_vars

\* C9's case: a mutation after the clock moved, on a context mutated before.
C9_Witness ==
  /\ lastOp.op = "AddResourceMapping"
  /\ now > StartTime
  /\ heap[1].lastActivity = now
  /\ lastOp.ts < now
  /\ heap[1].requestCount > 0

\* C10: AddRecentRequest of a request with timestamp < now - MaxAge returns no error
\* and leaves every field of the context unchanged.
C10_StaleArrivalNoOp ==
  [][(Called("AddRecentRequest") /\ lastOp'.ts < now - limits.MaxAgeHours)
       => (heap' = heap /\ lastOp'.ret = "ok")]_vars

\* C10's case: a request stamped with the epoch (stale at every clock value of the
\* model) arrived at a context that holds requests.
C10_Witness ==
  /\ lastOp.op = "AddRecentRequest"
  /\ lastOp.ts = 0
  /\ lastOp.ts < now - limits.MaxAgeHours
  /\ Len(heap[1].recentRequests) > 0
  /\ heap[1].lastActivity > 0

\* C11: after CleanupOldData no request, form or mapping older than now - MaxAge is
\* left, and when the three collections were within their caps before the call, every
\* item that is not older is still there, the requests in their order.
C11_CleanupExact ==
  [][Called("CleanupOldData") =>
       LET old == heap[lastOp'.inst]
           new == heap'[lastOp'.inst]
           Young(ts) == ts >= now - limits.MaxAgeHours
           YoungRequest(r) == Young(r.timestamp)
       IN /\ \A n \in 1 .. Len(new.recentRequests) : Young(new.recentRequests[n].timestamp)
          /\ \A k \in DOMAIN new.forms : Young(new.forms[k].firstSeen)
          /\ \A k \in DOMAIN new.resourceCRUD : Young(new.resourceCRUD[k].detectedAt)
          /\ (/\ Len(old.recentRequests) <= limits.MaxRecentRequests
              /\ Size(old.forms) <= limits.MaxForms
              /\ Size(old.resourceCRUD) <= limits.MaxResources)
             => /\ new.recentRequests = SelectSeq(old.recentRequests, YoungRequest)
                /\ new.forms =
                     MapRestrict(old.forms,
                                 {k \in DOMAIN old.forms : Young(old.forms[k].firstSeen)})
                /\ new.resourceCRUD =
                     MapRestrict(old.resourceCRUD,
                                 {k \in DOMAIN old.resourceCRUD :
                                    Young(old.resourceCRUD[k].detectedAt)})]_vars

\* C11's case: a cleanup dropped the one request the context had taken, which had
\* become stale, and kept a form.
C11_Witness ==
  /\ lastOp.op = "CleanupOldData"
  /\ heap[1].requestCount = 1
  /\ heap[1].recentRequests = << >>
  /\ DOMAIN heap[1].forms # {}
  /\ heap[1].lastCleanup = now

\* C12: on a fresh context that has only taken requests, recentRequests is the last
\* min(n, MaxRecentRequests) of the n non-stale requests in arrival order, and
\* requestCount is n.
C12_KeepsNewest ==
  \A i \in Instances :
    LET n == Len(arrived[i])
        k == IF n < limits.MaxRecentRequests THEN n ELSE limits.MaxRecentRequests
    IN /\ heap[i].recentRequests = SubSeq(arrived[i], n - k + 1, n)
       /\ heap[i].requestCount = n

\* C12's case: one request more than the cap has arrived, all different, and the
\* first one is gone.
C12_Witness ==
  /\ lastOp.op = "AddRecentRequest"
  /\ Len(arrived[1]) = limits.MaxRecentRequests + 1
  /\ \A m, n \in 1 .. Len(arrived[1]) : m # n => arrived[1][m] # arrived[1][n]
  /\ heap[1].recentRequests = Tail(arrived[1])
  /\ heap[1].requestCount = limits.MaxRecentRequests + 1

FieldOrder == <<"MaxRecentRequests", "MaxForms", "MaxResources", "MaxAgeHours",
                "MaxURLPatterns", "MaxNotesPerURL">>

\* C14: UpdateLimits (the limiter's and the registry's) of a policy with a field <= 0
\* returns an error that names the first such field and leaves the active policy,
\* as GetLimits returns it, the one it was; with all six fields > 0 it returns nil and
\* GetLimits returns the new policy.
C14_RejectedPolicy ==
  [][(Called("UpdateLimits") \/ Called("Manager.UpdateLimits")) =>
       LET new == lastOp'.lim
           bad == {n \in 1 .. Len(FieldOrder) : new[FieldOrder[n]] <= 0}
           first == CHOOSE n \in bad : \A m \in bad : n <= m
           text == FieldOrder[first] \o " must be positive"
       IN IF bad # {}
          THEN /\ lastOp'.ret \in {text, "failed to update limits: " \o text}
               /\ GetLimits(limits') = GetLimits(limits)
               /\ limits' = limits
          ELSE /\ lastOp'.ret = "ok"
               /\ GetLimits(limits') = new
               /\ limits' = new]_vars

\* C14's case: the registry rejected a policy with two offending fields while a
\* policy other than the default, accepted earlier, was active, and it still is.
C14_Witness ==
  /\ lastOp.op = "Manager.UpdateLimits"
  /\ lastOp.lim.MaxForms = 0
  /\ lastOp.lim.MaxURLPatterns = 0
  /\ lastOp.lim.MaxRecentRequests > 0
  /\ lastOp.ret = "failed to update limits: MaxForms must be positive"
  /\ limits # DefaultContextLimits
  /\ limits.MaxForms = 1

C16_RegistryValidation ==
  [][(Called("Manager.UpdateURLPattern") /\ (lastOp'.inst = 0 \/ lastOp'.note.nil)) =>
       /\ lastOp'.ret = IF lastOp'.inst = 0 THEN "siteContext cannot be nil"
                                              ELSE "urlNote cannot be nil"
       /\ heap' = heap
       /\ contexts' = contexts
       /\ limits' = limits]_vars

\* C16's case: a nil note was handed to the registry for a context that holds a
\* pattern.
C16_Witness ==
  /\ lastOp.op = "Manager.UpdateURLPattern"
  /\ lastOp.inst = 1
  /\ lastOp.note.nil
  /\ lastOp.ret = "urlNote cannot be nil"
  /\ lastOp.key \in DOMAIN heap[1].urlPatterns
  /\ heap[1].lastActivity > 0

\* C17 (as claimed): the context's UpdateURLPattern with a nil note returns an error,
\* does not panic, and leaves the context as it was, for a stored key and a new one,
\* with a pattern and without.
C17_ContextValidation ==
  [][(Called("UpdateURLPattern") /\ lastOp'.note.nil) =>
       /\ lastOp'.ret \notin {"ok", "panic"}
       /\ heap' = heap]_vars

\* C18: PerformGlobalCleanup removes every context that was present at its start with
\* a lastActivity older than now - MaxAge, and, the registry being within MaxContexts,
\* keeps every context whose lastActivity is not older than that, as the same instance.
C18_AgeBasedSweep ==
  [][Called("PerformGlobalCleanup") =>
       \A h \in DOMAIN contexts :
         /\ LastActivityOf(h) < now - limits.MaxAgeHours => h \notin DOMAIN contexts'
         /\ (/\ LastActivityOf(h) >= now - limits.MaxAgeHours
             /\ Size(contexts) <= maxContexts)
            => (h \in DOMAIN contexts' /\ contexts'[h] = contexts[h])]_vars

\* C18's case: after the clock moved, a sweep removed a host and kept another one that
\* a worker had touched within MaxAge.
C18_Witness ==
  /\ lastOp.op = "PerformGlobalCleanup"
  /\ now > StartTime
  /\ lastOp.hosts \ DOMAIN contexts # {}
  /\ \E h \in DOMAIN contexts :
       /\ h \in lastOp.hosts
       /\ heap[contexts[h]].requestCount > 0
       /\ heap[contexts[h]].lastActivity >= now - limits.MaxAgeHours

\* C19: after RemoveContext(host), Get(host) is nil and GetAllHosts is without host,
\* every other host keeps its instance and no host appears; RemoveContext of an absent
\* host changes nothing; Get and GetAllHosts report the map and change nothing.
C19_ExplicitRemoval ==
  [][/\ Called("RemoveContext") =>
          /\ Get(contexts', lastOp'.host) = 0
          /\ lastOp'.host \notin GetAllHosts(contexts')
          /\ DOMAIN contexts' = DOMAIN contexts \ {lastOp'.host}
          /\ \A h \in DOMAIN contexts' : contexts'[h] = contexts[h]
          /\ lastOp'.host \notin DOMAIN contexts => (contexts' = contexts /\ heap' = heap)
     /\ Called("Get") =>
          /\ contexts' = contexts /\ heap' = heap
          /\ lastOp'.inst = IF lastOp'.host \in DOMAIN contexts
                            THEN contexts[lastOp'.host] ELSE 0
     /\ Called("GetAllHosts") =>
          /\ contexts' = contexts /\ heap' = heap
          /\ lastOp'.hosts = DOMAIN contexts]_vars

\* C19's case: two hosts were created in a registry of two, a worker used one, and
\* RemoveContext took that one out; the other is still there.
C19_Witness ==
  /\ lastOp.op = "RemoveContext"
  /\ maxContexts = 2
  /\ Len(heap) = 2
  /\ Size(contexts) = 1
  /\ lastOp.host \notin DOMAIN contexts
  /\ \E i \in Instances :
       /\ heap[i].host = lastOp.host
       /\ heap[i].requestCount > 0
       /\ i \notin Range(contexts)

\* C20: Stop called again and again, one call after another, with the cleanup goroutine
\* or without it: no call panics (stopChan is never closed twice), and a call is
\* never left waiting: whenever a caller has a call left, Stop can run to its return.
C20_StopRepeatable ==
  /\ [][Called("Stop") => lastOp'.ret = "ok"]_vars
  /\ [](budget # 0 => ENABLED CallStop)

\* C20's case: Stop returned on a registry whose goroutine had already left the loop
\* after an earlier Stop closed the channel, with a context a worker has used.
C20_Witness ==
  /\ lastOp.op = "Stop"
  /\ lastOp.ret = "ok"
  /\ mgr.stopChan = "closed"
  /\ mgr.loop = "exited"
  /\ ~mgr.cleanupTicker
  /\ \E i \in Instances : heap[i].requestCount > 0

\* C21: however often Stop is called, the cleanup pass over the contexts is made once,
\* by the first call: a Stop that follows a Stop changes neither the registry nor any
\* context.
C21_FinalCleanupOnce ==
  [][(lastOp.op = "Stop" /\ Called("Stop") /\ budget' # budget) =>
       (heap' = heap /\ contexts' = contexts /\ mgr' = mgr)]_vars

\* The goroutines that hold mutex m, and those goroutine t is waiting for.
Holders(m) == (IF mutexes[m].writer = 0 THEN {} ELSE {mutexes[m].writer}) \cup mutexes[m].readers
Holds(t) == {m \in DOMAIN mutexes : t \in Holders(m)}
WaitsFor(t) ==
  IF At(t, "Acquire") THEN Holders(Instr(t).m) \ {t}
  ELSE IF At(t, "RLock")
       THEN (IF mutexes[Instr(t).m].writer = 0 THEN {} ELSE {mutexes[Instr(t).m].writer})
              \cup mutexes[Instr(t).m].waiting
       ELSE {}
Wants(t) ==
  IF threads[t].prog # << >> /\ Instr(t).ins \in {"Lock", "Acquire", "RLock"}
  THEN {Instr(t).m} ELSE {}

\* C22: the goroutines take the registry's lock before a context's lock and never the
\* other way round, a goroutine holds one context's lock at a time, and there is no set
\* of goroutines each of which waits for a lock that another of the set holds or is
\* queued for.
C22_NoDeadlock ==
  /\ \A t \in DOMAIN threads :
       /\ (Holds(t) \ {RegistryMutex} # {}) => RegistryMutex \notin Wants(t)
       /\ Cardinality(Holds(t) \ {RegistryMutex}) <= 1
       /\ (Holds(t) \ {RegistryMutex} # {}) => Wants(t) = {}
  /\ \A D \in SUBSET (DOMAIN threads) :
       D # {} => \E t \in D : WaitsFor(t) \cap D = {}

\* C22's case: the cleanup goroutine holds the registry's lock and waits for a context
\* that one worker holds, while the other worker waits for the registry.
C22_Witness ==
  /\ threads # << >>
  /\ mutexes[RegistryMutex].writer = SchedulerThread
  /\ At(SchedulerThread, "Acquire")
  /\ \E w \in Threads \ {SchedulerThread} :
       /\ mutexes[Instr(SchedulerThread).m].writer = w
  /\ \E w \in Threads \ {SchedulerThread} :
       /\ threads[w].op = "GetOrCreate"
       /\ At(w, "Acquire")

\* A step in which the cleanup goroutine takes a tick and sweeps.
SchedulerSweeps == mgr.tickPending /\ ~mgr'.tickPending

\* C23: on Stop the ticking loop ends first and the cleanup pass comes after it: the
\* goroutine starts no sweep once Stop has begun its pass or has returned, that is once
\* the channel is closed.
C23_ShutdownOrder == [][SchedulerSweeps => mgr.stopChan = "open"]_vars

\* C24: a registry built with a positive interval: once Stop has been called, the
\* goroutine leaves its loop, whatever tick is pending; a registry built without one has
\* no goroutine and no ticker, so that a sweep is always a call of PerformGlobalCleanup.
C24_SchedulerTerminates ==
  /\ (lastOp.op = "Stop" /\ mgr.loop # "none") ~> (mgr.loop = "exited")
  /\ [](mgr.loop = "none" => ~ENABLED SchedulerTick /\ ~ENABLED TickerFire /\ ~ENABLED SchedulerExit)

\* C24's case: the goroutine has left its loop after Stop although a tick was pending.
C24_Witness ==
  /\ lastOp.op = "Stop"
  /\ mgr.loop = "exited"
  /\ mgr.tickPending

\* Context i is in the registry.
Registered(i) == i \in Instances /\ i \in Range(contexts)
\* Context i is older than MaxAge by the time the clock reaches the horizon, unless a
\* worker touches it.
StaleInTime(i) == heap[i].lastActivity < MaxTime - limits.MaxAgeHours

\* C25: with the goroutine running and Stop not called, a context of the registry that
\* no worker touches again becomes stale and a sweep of the goroutine removes it.
C25_StaleEvicted ==
  \A i \in 1 .. MaxInstances :
    (Registered(i) /\ StaleInTime(i) /\ mgr.loop = "running" /\ mgr.stopChan = "open")
      ~> (~Registered(i) \/ ~StaleInTime(i) \/ mgr.stopChan = "closed")

\* C25's case: the goroutine's sweep has removed the one context, which a worker had
\* used before it went stale.
C25_Witness ==
  /\ lastOp.op = "PerformGlobalCleanup"
  /\ lastOp.hosts = {"a"}
  /\ mgr.stopChan = "open"
  /\ Len(heap) = 1
  /\ heap[1].requestCount > 0
  /\ heap[1].lastActivity > 0
  /\ contexts = EmptyMap

\* C26: AddForm with a new identifier on a full map removes exactly one stored form, one
\* of smallest firstSeen, and below the cap it removes none; the same for
\* AddResourceMapping with a new key and detectedAt.
C26_OldestFirst ==
  [][/\ Called("AddForm") =>
          LET old == heap[lastOp'.inst].forms
              removed == DOMAIN old \ DOMAIN heap'[lastOp'.inst].forms
          IN /\ (lastOp'.key \notin DOMAIN old /\ Size(old) = limits.MaxForms)
                  => /\ Cardinality(removed) = 1
                     /\ \A k \in removed, j \in DOMAIN old :
                          old[k].firstSeen <= old[j].firstSeen
             /\ Size(old) < limits.MaxForms => removed = {}
     /\ Called("AddResourceMapping") =>
          LET old == heap[lastOp'.inst].resourceCRUD
              removed == DOMAIN old \ DOMAIN heap'[lastOp'.inst].resourceCRUD
          IN /\ (lastOp'.key \notin DOMAIN old /\ Size(old) = limits.MaxResources)
                  => /\ Cardinality(removed) = 1
                     /\ \A k \in removed, j \in DOMAIN old :
                          old[k].detectedAt <= old[j].detectedAt
             /\ Size(old) < limits.MaxResources => removed = {}]_vars

\* C27: AddForm with an identifier that is already stored leaves the set of stored
\* identifiers as it was, on a full map too; the same for AddResourceMapping with a
\* stored key.
C27_ReextractionIdempotent ==
  [][/\ (Called("AddForm") /\ lastOp'.key \in DOMAIN heap[lastOp'.inst].forms)
          => DOMAIN heap'[lastOp'.inst].forms = DOMAIN heap[lastOp'.inst].forms
     /\ (Called("AddResourceMapping") /\ lastOp'.key \in DOMAIN heap[lastOp'.inst].resourceCRUD)
          => DOMAIN heap'[lastOp'.inst].resourceCRUD = DOMAIN heap[lastOp'.inst].resourceCRUD]_vars

\* C28: UpdateURLPattern with a note and a stored key deletes no pattern, on a full map
\* too, sets the pattern's notes to its previous notes, less the oldest if they were
\* MaxNotesPerURL already, followed by the note, and writes purpose exactly when the
\* note has content.
C28_UpdateExisting ==
  [][(/\ Called("UpdateURLPattern")
      /\ ~lastOp'.note.nil
      /\ lastOp'.key \in DOMAIN heap[lastOp'.inst].urlPatterns) =>
       LET old == heap[lastOp'.inst].urlPatterns
           new == heap'[lastOp'.inst].urlPatterns
           key == lastOp'.key
           note == lastOp'.note
           kept == IF Len(old[key].notes) >= limits.MaxNotesPerURL
                   THEN Tail(old[key].notes)
                   ELSE old[key].notes
       IN /\ DOMAIN new = DOMAIN old
          /\ new[key].notes = Append(kept, note)
          /\ new[key].purpose = IF note.content # "" THEN note.content ELSE old[key].purpose]_vars

\* C29: no call deletes a pattern that has a note; a call deletes at most one pattern,
\* and only UpdateURLPattern on a full map deletes one; CleanupOldData deletes none.
C29_OverflowHeuristic ==
  [][\A i \in Instances :
       LET old == heap[i].urlPatterns
           gone == DOMAIN old \ DOMAIN heap'[i].urlPatterns
       IN /\ \A k \in gone : Len(old[k].notes) = 0
          /\ Cardinality(gone) <= 1
          /\ gone # {} => /\ lastOp'.op \in {"UpdateURLPattern", "Manager.UpdateURLPattern"}
                          /\ Size(old) >= limits.MaxURLPatterns]_vars

\* C29's case: UpdateURLPattern with a new key on a full map has deleted a pattern and
\* stored the key beside a pattern that has a note.
C29_Witness ==
  /\ lastOp.op = "UpdateURLPattern"
  /\ lastOp.gone # {}
  /\ lastOp.key \notin lastOp.gone
  /\ LET stored == heap[lastOp.inst].urlPatterns
     IN /\ lastOp.key \in DOMAIN stored
        /\ Size(stored) = limits.MaxURLPatterns
        /\ \E k \in DOMAIN stored \ {lastOp.key} : Len(stored[k].notes) > 0

\* C30: GetOrCreate of a host that is not in the registry, evicted or removed before or
\* not, returns an instance that did not exist until then, with empty collections and
\* requestCount 0, and leaves every earlier instance as it was; a call through a handle
\* changes the instance of that handle and no other, so what goes through the handle of
\* an evicted context does not show in the context the registry holds now.
C30_FreshAfterEviction ==
  [][/\ (Called("GetOrCreate") /\ lastOp'.host \notin DOMAIN contexts) =>
          /\ lastOp'.inst \notin Instances
          /\ contexts'[lastOp'.host] = lastOp'.inst
          /\ heap'[lastOp'.inst] = NewSiteContextWithLimiter(lastOp'.host, mgr.limiter, now)
          /\ heap'[lastOp'.inst].requestCount = 0
          /\ \A i \in Instances : heap'[i] = heap[i]
     /\ Called("AddRecentRequest") =>
          \A i \in Instances \ {lastOp'.inst} : heap'[i] = heap[i]]_vars

\* C30's case: a host was given a second context after the first one, which a worker
\* had used, left the registry, and the worker has used its old handle again since.
C30_Witness ==
  /\ lastOp.op = "AddRecentRequest"
  /\ \E i \in Instances, j \in Instances :
       /\ i < j
       /\ heap[i].host = heap[j].host
       /\ lastOp.inst = i
       /\ heap[j].host \in DOMAIN contexts
       /\ contexts[heap[j].host] = j
       /\ heap[i].requestCount > 1
       /\ heap[j].requestCount = 0
       /\ heap[j].recentRequests = << >>

\* C31: a goroutine inside GetOrCreate, evicting or not, holds no context's lock and
\* asks for none, in either mode: only the registry's.
C31_GetOrCreateRegistryLockOnly ==
  \A t \in DOMAIN threads :
    threads[t].op = "GetOrCreate" =>
      /\ Holds(t) \subseteq {RegistryMutex}
      /\ Wants(t) \subseteq {RegistryMutex}

\* The goroutine t is in the middle of a sweep under the registry's exclusive lock: it
\* has cleaned a context of those it started from and has another to clean.
MidSweep(t) ==
  /\ mutexes[RegistryMutex].writer = t
  /\ lastOp.op = "PerformGlobalCleanup"
  /\ lastOp.ret = ""
  /\ At(t, "range")
  /\ Instr(t).todo # {}
  /\ Cardinality(Instr(t).todo) < Cardinality(lastOp.hosts)

\* C32: UpdateLimits swaps the policy under the registry's exclusive lock, so that the
\* policy does not change while another goroutine is in the middle of an operation
\* under that lock.
C32_AtomicPolicySwap ==
  [][(\E t \in DOMAIN threads : MidSweep(t)) => limits' = limits]_vars

\* C34: whatever the collections held before, CleanupOldData leaves at most
\* MaxRecentRequests requests (the newest of those that are not stale), at most
\* MaxForms forms and at most MaxResources mappings, under the policy now active.
C34_CleanupBackstop ==
  [][(Called("CleanupOldData") /\ budget' # budget)
       => LET old == heap[lastOp'.inst]
              new == heap'[lastOp'.inst]
              Fresh(req) == req.timestamp >= now - limits.MaxAgeHours
              valid == SelectSeq(old.recentRequests, Fresh)
              n == IF Len(valid) < limits.MaxRecentRequests
                   THEN Len(valid) ELSE limits.MaxRecentRequests
          IN /\ Len(new.recentRequests) <= limits.MaxRecentRequests
             /\ new.recentRequests = SubSeq(valid, Len(valid) - n + 1, Len(valid))
             /\ Size(new.forms) <= limits.MaxForms
             /\ Size(new.resourceCRUD) <= limits.MaxResources]_vars

\* The caps were lowered below what the context held, nothing it held was stale, and
\* the cleanup cut the forms down to the new cap.
C34_Witness ==
  /\ lastOp.op = "CleanupOldData"
  /\ lastOp.gone # {}
  /\ now = StartTime
  /\ limits = LowCaps
  /\ Size(heap[1].forms) = limits.MaxForms
  /\ Len(heap[1].recentRequests) = limits.MaxRecentRequests
  /\ nonStale[1] > limits.MaxRecentRequests

\* C35: a collection that is above its cap, as after UpdateLimits lowered the cap, is
\* within the cap when the next mutating call on that collection returns.
C35_LazyShrink ==
  [][(now' = now /\ budget' # budget /\ lastOp'.inst \in Instances)
       => LET old == heap[lastOp'.inst]
              new == heap'[lastOp'.inst]
          IN /\ (/\ lastOp'.op = "AddRecentRequest"
                 /\ Len(old.recentRequests) > limits.MaxRecentRequests)
                  => Len(new.recentRequests) <= limits.MaxRecentRequests
             /\ (lastOp'.op = "AddForm" /\ Size(old.forms) > limits.MaxForms)
                  => Size(new.forms) <= limits.MaxForms
             /\ (/\ lastOp'.op = "AddResourceMapping"
                 /\ Size(old.resourceCRUD) > limits.MaxResources)
                  => Size(new.resourceCRUD) <= limits.MaxResources
             /\ (/\ lastOp'.op \in {"UpdateURLPattern", "Manager.UpdateURLPattern"}
                 /\ Size(old.urlPatterns) > limits.MaxURLPatterns)
                  => Size(new.urlPatterns) <= limits.MaxURLPatterns
             /\ (/\ lastOp'.op \in {"UpdateURLPattern", "Manager.UpdateURLPattern"}
                 /\ lastOp'.key \in DOMAIN old.urlPatterns
                 /\ Len(old.urlPatterns[lastOp'.key].notes) > limits.MaxNotesPerURL)
                  => Len(new.urlPatterns[lastOp'.key].notes) <= limits.MaxNotesPerURL]_vars

C36_FreshSurvivesSweep ==
  [][(/\ Called("PerformGlobalCleanup")
      /\ budget' # budget
      /\ lastOp.op = "GetOrCreate"
      /\ lastOp.host \notin lastOp.hosts
      /\ heap[lastOp.inst].lastCleanup > now - limits.MaxAgeHours)
       => lastOp.host \in DOMAIN contexts']_vars

\* C37: CleanupOldData, called directly or by PerformGlobalCleanup, RemoveContext or
\* Stop, leaves lastActivity, requestCount, urlPatterns and techStack of every context
\* as they were; it only removes requests, forms and mappings.
C37_CleanupIsNotActivity ==
  [][(/\ now' = now
      /\ budget' # budget
      /\ lastOp'.op \in {"CleanupOldData", "PerformGlobalCleanup", "RemoveContext", "Stop"})
       => \A i \in Instances :
            /\ heap'[i].lastActivity = heap[i].lastActivity
            /\ heap'[i].requestCount = heap[i].requestCount
            /\ heap'[i].urlPatterns = heap[i].urlPatterns
            /\ heap'[i].techStack = heap[i].techStack
            /\ heap'[i].host = heap[i].host
            /\ Len(heap'[i].recentRequests) <= Len(heap[i].recentRequests)
            /\ Range(heap'[i].recentRequests) \subseteq Range(heap[i].recentRequests)
            /\ \A k \in DOMAIN heap'[i].forms :
                 k \in DOMAIN heap[i].forms /\ heap'[i].forms[k] = heap[i].forms[k]
            /\ \A k \in DOMAIN heap'[i].resourceCRUD :
                 /\ k \in DOMAIN heap[i].resourceCRUD
                 /\ heap'[i].resourceCRUD[k] = heap[i].resourceCRUD[k]]_vars

\* A cleanup has removed a form of a context that has a pattern and a counted request,
\* some time after the context's last activity.
C37_Witness ==
  /\ lastOp.op = "CleanupOldData"
  /\ lastOp.gone # {}
  /\ LET sc == heap[lastOp.inst]
     IN /\ sc.lastActivity > 0
        /\ sc.lastActivity < sc.lastCleanup
        /\ sc.requestCount > 0
        /\ sc.urlPatterns # EmptyMap

\* C38: when goroutines call Stop at the same time on a registry whose scheduler runs,
\* none of them closes the channel that is already closed: no call panics.
C38_ConcurrentStop ==
  \A t \in DOMAIN threads : threads[t] # Panicked

\* C39: every step that writes the context's recentRequests, requestCount,
\* lastActivity or resourceCRUD, the helpers' steps included, is the step of the
\* goroutine that holds the context's lock, and leaves recentRequests and
\* resourceCRUD within the limiter's caps.
C39_WritesUnderLock ==
  [][(\/ heap'[1].recentRequests # heap[1].recentRequests
      \/ heap'[1].requestCount # heap[1].requestCount
      \/ heap'[1].lastActivity # heap[1].lastActivity
      \/ heap'[1].resourceCRUD # heap[1].resourceCRUD)
       => /\ locks.holder # 0
          /\ lastOp'.op = locks.call.op
          /\ Len(heap'[1].recentRequests) <= LimitsOf(heap'[1]).MaxRecentRequests
          /\ Size(heap'[1].resourceCRUD) <= LimitsOf(heap'[1]).MaxResources]_vars

\* C40: every entry of the registry's map is stored under the host of its context, no
\* context is stored under two keys, and every stored context holds the limiter the
\* registry holds.
C40_RegistryIdentities ==
  \A h \in DOMAIN contexts :
    /\ heap[contexts[h]].host = h
    /\ \A g \in DOMAIN contexts : contexts[g] = contexts[h] => g = h
    /\ heap[contexts[h]].limiter = mgr.limiter
    /\ heap[contexts[h]].limiter # OwnLimiter

====
